---- MODULE Spec2Model ----
(***************************************************************************)
(* cafeteria-admin: the sale lifecycle of core/models.py (Venta,           *)
(* VentaItem), the loyalty points of Cliente and the stock of Insumo.      *)
(*                                                                         *)
(* Fixed-point encoding of the Decimal fields:                             *)
(*   money (decimal_places=2)            -> integer cents                  *)
(*   Insumo.cantidad (decimal_places=2)  -> integer hundredths             *)
(*   ProductoReceta.cantidad (3 places)  -> integer thousandths            *)
(*   ProductoReceta.costo_total (4)      -> integer ten-thousandths        *)
(* A foreign key that is NULL is 0.                                        *)
(***************************************************************************)
EXTENDS Integers, Sequences, FiniteSets, TLC

VARIABLES
    venta,        \* table core_venta: id -> row
    items,        \* table core_ventaitem: id -> row
    next_venta,   \* next AutoField value of core_venta
    next_item,    \* next AutoField value of core_ventaitem
    puntos,       \* table core_cliente: id -> Cliente.puntos
    insumo,       \* table core_insumo: id -> row
    receta,       \* table core_productoreceta: producto -> set of rows
    llamada,      \* the last request served: operation, argument, result
    pc,           \* per interleaved request: position inside finalizar/cancelar
    mem,          \* per interleaved request: its in-memory model instances
    inicial,      \* history: the stored rows when the interleaved requests began
    producto,     \* table core_producto: id -> row
    next_producto,\* next AutoField value of core_producto
    next_receta,  \* next AutoField value of core_productoreceta
    hoy,          \* the wall clock: today's date, in days (day 0 is a Monday)
    hora,         \* the wall clock: the time of day, in minutes
    empleado,     \* table core_empleado: id -> row
    horario,      \* table core_horario: id -> row
    next_horario, \* next AutoField value of core_horario
    asistencia    \* table core_asistencia: <<empleado, fecha>> -> row

store == <<venta, items, next_venta, next_item, puntos, insumo, receta>>
recetario == <<producto, next_producto, next_receta>>
personal == <<hoy, hora, empleado, horario, next_horario, asistencia>>
vars == <<venta, items, next_venta, next_item, puntos, insumo, receta,
          llamada, pc, mem, inicial, recetario, personal>>

(***************************************************************************)
(* Bounds of the model.                                                    *)
(***************************************************************************)
MaxItems == 2

\* the AutoField values core_venta can hand out
VentaIds == {1, 2}

\* the lines a sale form submits: product (0: none), unit price in cents, quantity
Lineas ==
    {[producto |-> 1, precio |-> 5000, cantidad |-> 1],
     [producto |-> 2, precio |-> 4775, cantidad |-> 2],
     [producto |-> 0, precio |-> 1050, cantidad |-> 1]}

\* the balances a customer form submits
PuntosForm == {-5, 0, 200}

\* the balance of the customer when the interleaved requests begin
PuntosConc == {0, 200}
Clientes == {1}
Requests == {1, 2}

Insumos == {1, 2}
Productos == {1, 2}

(***************************************************************************)
(* Decimal arithmetic.                                                     *)
(***************************************************************************)
Abs(x) == IF x < 0 THEN -x ELSE x

Min(a, b) == IF a <= b THEN a ELSE b

Max(a, b) == IF a >= b THEN a ELSE b

\* n/d rounded to the nearest integer, ties away from zero (d > 0)
RoundHalfUp(n, d) ==
    LET q == (2 * Abs(n) + d) \div (2 * d)
    IN  IF n < 0 THEN -q ELSE q

\* n/d rounded to the nearest integer, ties to the even one (d > 0)
RoundHalfEven(n, d) ==
    LET a == Abs(n)
        q == a \div d
        r == a % d
        m == IF 2 * r > d THEN q + 1
             ELSE IF 2 * r = d THEN q + (q % 2)
             ELSE q
    IN  IF n < 0 THEN -m ELSE m

\* int(Decimal): truncation toward zero of cents to whole currency units
IntDeCentavos(c) == IF c < 0 THEN -((-c) \div 100) ELSE c \div 100

RECURSIVE SeqOfSet(_)
\* the elements of a finite set of integers in ascending order (ORDER BY id)
SeqOfSet(S) ==
    IF S = {} THEN <<>>
    ELSE LET m == CHOOSE x \in S : \A y \in S : x <= y
         IN  <<m>> \o SeqOfSet(S \ {m})

RECURSIVE SumSeq(_)
SumSeq(s) == IF s = <<>> THEN 0 ELSE Head(s) + SumSeq(Tail(s))

Restrict(f, S) == [x \in S |-> f[x]]

RECURSIVE Gcd(_, _)
Gcd(a, b) == IF b = 0 THEN a ELSE Gcd(b, a % b)

\* the exact quotient n/d (n >= 0, d > 0) in lowest terms
Fraccion(n, d) == [num |-> n \div Gcd(n, d), den |-> d \div Gcd(n, d)]

(***************************************************************************)
(* ProductoReceta: unit conversion and line cost.                          *)
(* A recipe row is [producto, insumo, cantidad, unidad]; an Insumo row is  *)
(* [cantidad, unidad, costo_por_unidad].  A converted quantity is the      *)
(* exact fraction num/den, in the unit of the Insumo.  Decimal division by *)
(* 1000 is exact; by 12 it is correct to 28 digits, which no rounding to   *)
(* 2 or 4 places below can tell from the exact quotient.                   *)
(***************************************************************************)
\* kg -> g and l -> ml divide where the code multiplies
convertir_factor_invertido(q, receta_u, insumo_u) ==
    IF receta_u = insumo_u THEN q
    ELSE IF receta_u \in {"kg", "g"} /\ insumo_u \in {"kg", "g"}
         THEN Fraccion(q.num, q.den * 1000)
    ELSE IF receta_u \in {"l", "ml"} /\ insumo_u \in {"l", "ml"}
         THEN Fraccion(q.num, q.den * 1000)
    ELSE IF receta_u = "docena" /\ insumo_u = "unidad" THEN Fraccion(q.num * 12, q.den)
    ELSE IF receta_u = "unidad" /\ insumo_u = "docena" THEN Fraccion(q.num, q.den * 12)
    ELSE q

\* a pair of units without a rule converts to nothing
convertir_incompatible_cero(q, receta_u, insumo_u) ==
    IF receta_u = insumo_u THEN q
    ELSE IF receta_u = "kg" /\ insumo_u = "g" THEN Fraccion(q.num * 1000, q.den)
    ELSE IF receta_u = "g" /\ insumo_u = "kg" THEN Fraccion(q.num, q.den * 1000)
    ELSE IF receta_u = "l" /\ insumo_u = "ml" THEN Fraccion(q.num * 1000, q.den)
    ELSE IF receta_u = "ml" /\ insumo_u = "l" THEN Fraccion(q.num, q.den * 1000)
    ELSE IF receta_u = "docena" /\ insumo_u = "unidad" THEN Fraccion(q.num * 12, q.den)
    ELSE IF receta_u = "unidad" /\ insumo_u = "docena" THEN Fraccion(q.num, q.den * 12)
    ELSE Fraccion(0, 1)

\* the chain of tests of cantidad_equivalente_insumo on the Decimal q = num/den
convertir(q, receta_u, insumo_u) ==
    IF receta_u = insumo_u THEN q
    ELSE IF receta_u = "kg" /\ insumo_u = "g" THEN Fraccion(q.num * 1000, q.den)
    ELSE IF receta_u = "g" /\ insumo_u = "kg" THEN Fraccion(q.num, q.den * 1000)
    ELSE IF receta_u = "l" /\ insumo_u = "ml" THEN Fraccion(q.num * 1000, q.den)
    ELSE IF receta_u = "ml" /\ insumo_u = "l" THEN Fraccion(q.num, q.den * 1000)
    ELSE IF receta_u = "docena" /\ insumo_u = "unidad" THEN Fraccion(q.num * 12, q.den)
    ELSE IF receta_u = "unidad" /\ insumo_u = "docena" THEN Fraccion(q.num, q.den * 12)
    ELSE q

cantidad_equivalente_insumo(pr, ins) ==
    LET receta_u == pr.unidad
        insumo_u == ins.unidad
        q == Fraccion(pr.cantidad, 1000)
    IN  convertir(q, receta_u, insumo_u)

\* round(cantidad_equiv * costo_u, 4), in ten-thousandths
receta_costo_total(pr, ins) ==
    LET e == cantidad_equivalente_insumo(pr, ins)
    IN  RoundHalfEven(e.num * ins.costo_por_unidad * 100, e.den)

\* producto.receta_items.all(): the recipe rows of a product, ORDER BY insumo
receta_items(rec, p) ==
    LET ids == {r \in DOMAIN rec : rec[r].producto = p}
        key(r) == rec[r].insumo * 1000 + r
        ks == SeqOfSet({key(r) : r \in ids})
    IN  [n \in 1..Len(ks) |-> rec[CHOOSE r \in ids : key(r) = ks[n]]]

(***************************************************************************)
(* VentaItem.  A row is [venta, producto, precio, cantidad].               *)
(***************************************************************************)
\* venta.items.all(): ids of the lines of a sale, ORDER BY id
venta_items(its, v) == SeqOfSet({i \in DOMAIN its : its[i].venta = v})

calcular_costo_total(it, rec, insu) ==
    LET prs == IF it.producto # 0 THEN receta_items(rec, it.producto) ELSE <<>>
        costo == SumSeq([n \in 1..Len(prs) |-> receta_costo_total(prs[n], insu[prs[n].insumo])])
    IN  RoundHalfUp(costo * it.cantidad, 100)

\* the new Insumo.cantidad written by one pass of the loop body of descontar_insumos
descontar_uno(ins, pr, cant) ==
    LET e == cantidad_equivalente_insumo(pr, ins)
    IN  RoundHalfUp(ins.cantidad * e.den - 100 * e.num * cant, e.den)

(***************************************************************************)
(* Venta.  A row is [cliente, estado, precio_total_cache,                  *)
(* costo_total_cache, puntos_usados].                                      *)
(***************************************************************************)
nueva_venta(c) ==
    [cliente |-> c, estado |-> "pendiente", precio_total_cache |-> 0,
     costo_total_cache |-> 0, puntos_usados |-> 0]

\* a sale that can always be modified
puede_modificar_siempre(self) == self.estado \in {"pendiente", "finalizada"}

puede_modificar(self) == self.estado = "pendiente"

calcular_totales(self, v, its, rec, insu) ==
    LET ids == venta_items(its, v)
        precio == SumSeq([n \in 1..Len(ids) |-> its[ids[n]].precio * its[ids[n]].cantidad])
        costo == SumSeq([n \in 1..Len(ids) |-> calcular_costo_total(its[ids[n]], rec, insu)])
    IN  [self EXCEPT !.precio_total_cache = precio, !.costo_total_cache = costo]

\* in cents
precio_final(self) ==
    LET final == self.precio_total_cache - 100 * self.puntos_usados
    IN  IF final < 0 THEN 0 ELSE final

\* redemption without the cap of the sale's total
aplicar_puntos_auto_sin_tope(self, cli) ==
    IF self.cliente = 0 THEN [self EXCEPT !.puntos_usados = 0]
    ELSE [self EXCEPT !.puntos_usados = cli]

\* cli: the balance of the loaded customer (read only when self.cliente is set)
aplicar_puntos_auto(self, cli) ==
    IF self.cliente = 0 THEN [self EXCEPT !.puntos_usados = 0]
    ELSE LET puntos_disponibles == cli
             usar == Min(puntos_disponibles, IntDeCentavos(self.precio_total_cache))
         IN  [self EXCEPT !.puntos_usados = usar]

\* the pairs (recipe row, line quantity) that descontar_inventario visits, in order
RECURSIVE tareas_de(_, _, _)
tareas_de(ids, its, rec) ==
    IF ids = <<>> THEN <<>>
    ELSE LET it == its[Head(ids)]
             prs == IF it.producto # 0 THEN receta_items(rec, it.producto) ELSE <<>>
         IN  [n \in 1..Len(prs) |-> [pr |-> prs[n], cant |-> it.cantidad]]
             \o tareas_de(Tail(ids), its, rec)

RECURSIVE descontar_tareas(_, _)
\* every task reads its Insumo row afresh and saves it
descontar_tareas(ts, insu) ==
    IF ts = <<>> THEN insu
    ELSE LET t == Head(ts)
             i == t.pr.insumo
         IN  descontar_tareas(Tail(ts),
                 [insu EXCEPT ![i].cantidad = descontar_uno(insu[i], t.pr, t.cant)])

\* every deduction computed on the copy read before the first one: the last
\* one saved overwrites the others
descontar_inventario_copia_vieja(v, its, rec, insu) ==
    LET ts == tareas_de(venta_items(its, v), its, rec)
    IN  [i \in DOMAIN insu |->
            LET ns == {n \in 1..Len(ts) : ts[n].pr.insumo = i}
                u == CHOOSE n \in ns : \A m \in ns : m <= n
            IN  IF ns = {} THEN insu[i]
                ELSE [insu[i] EXCEPT !.cantidad = descontar_uno(insu[i], ts[u].pr, ts[u].cant)]]

descontar_inventario(v, its, rec, insu) ==
    descontar_tareas(tareas_de(venta_items(its, v), its, rec), insu)

\* lines 353-355 of finalizar: the balance after the redemption
canjear_puntos(self, cli) ==
    IF self.cliente # 0 /\ self.puntos_usados # 0
    THEN Max(0, cli - self.puntos_usados)
    ELSE cli

\* an award on the total before the redemption
puntos_ganados_sobre_total(self) == self.precio_total_cache \div 1000

puntos_ganados(self) == precio_final(self) \div 1000

\* the balance after the award
asignar_puntos_cliente(self, cli) ==
    IF self.cliente = 0 THEN cli
    ELSE IF puntos_ganados(self) > 0 THEN cli + puntos_ganados(self)
    ELSE cli

\* Model.save(): UPDATE the row, INSERT it when no row has the key
guardar(tabla, id, fila) ==
    IF id \in DOMAIN tabla THEN [tabla EXCEPT ![id] = fila]
    ELSE tabla @@ (id :> fila)

\* Venta.delete(): the row and, by on_delete=CASCADE, its lines
borrar_venta(tabla, id) == Restrict(tabla, DOMAIN tabla \ {id})

\* a delete that leaves the lines behind
borrar_items_ninguno(its, id) == its

borrar_items(its, id) == Restrict(its, {i \in DOMAIN its : its[i].venta # id})

(***************************************************************************)
(* The catalogue the sales draw on: two ingredients and two products.      *)
(***************************************************************************)
Catalogo ==
    [insumo |-> (1 :> [cantidad |-> 1000, unidad |-> "kg", costo_por_unidad |-> 4000]) @@
                (2 :> [cantidad |-> 50, unidad |-> "l", costo_por_unidad |-> 300]),
     receta |-> (1 :> [producto |-> 1, insumo |-> 1, cantidad |-> 18000, unidad |-> "g"]) @@
                (2 :> [producto |-> 2, insumo |-> 1, cantidad |-> 10, unidad |-> "kg"]) @@
                (3 :> [producto |-> 2, insumo |-> 2, cantidad |-> 250000, unidad |-> "ml"]),
     producto |-> (1 :> [precio_venta |-> 5000]) @@ (2 :> [precio_venta |-> 4775])]

Vacia == [x \in {} |-> 0]

\* the products of the catalogue, as the sales see them
RecetarioFijo ==
    /\ producto = Catalogo.producto
    /\ next_producto = 3
    /\ next_receta = 4

\* no employee, shift or attendance record, and a clock that stands still
SinPersonal ==
    /\ hoy = 0
    /\ hora = 0
    /\ empleado = Vacia
    /\ horario = Vacia
    /\ next_horario = 1
    /\ asistencia = Vacia

SinMem ==
    [op |-> "", id |-> 0, venta |-> nueva_venta(0), cli |-> 0,
     tareas |-> <<>>, ins |-> Catalogo.insumo[1], ret |-> FALSE]

Init ==
    /\ venta = Vacia
    /\ items = Vacia
    /\ next_venta = 1
    /\ next_item = 1
    /\ puntos = Vacia
    /\ insumo = Catalogo.insumo
    /\ receta = Catalogo.receta
    /\ llamada = [op |-> "", id |-> 0, ret |-> FALSE]
    /\ pc = [r \in Requests |-> "idle"]
    /\ mem = [r \in Requests |-> SinMem]
    /\ inicial = <<>>
    /\ RecetarioFijo
    /\ SinPersonal

(***************************************************************************)
(* Requests served one at a time: each action is one whole request.        *)
(***************************************************************************)
\* ClienteCreateView with ClienteForm: puntos is a plain IntegerField
ClienteCrear(c, p) ==
    /\ c \notin DOMAIN puntos
    /\ \A d \in Clientes : d < c => d \in DOMAIN puntos
    /\ puntos' = puntos @@ (c :> p)
    /\ llamada' = [op |-> "cliente_crear", id |-> c, ret |-> TRUE]
    /\ UNCHANGED <<venta, items, next_venta, next_item, insumo, receta, pc, mem, inicial, recetario, personal>>

\* ClienteUpdateView with ClienteForm
ClienteEditar(c, p) ==
    /\ c \in DOMAIN puntos
    /\ puntos' = [puntos EXCEPT ![c] = p]
    /\ llamada' = [op |-> "cliente_editar", id |-> c, ret |-> TRUE]
    /\ UNCHANGED <<venta, items, next_venta, next_item, insumo, receta, pc, mem, inicial, recetario, personal>>

\* venta_create: a new sale, with or without a customer
VentaCrear(c) ==
    /\ next_venta \in VentaIds
    /\ c \in {0} \cup DOMAIN puntos
    /\ venta' = venta @@ (next_venta :> nueva_venta(c))
    /\ next_venta' = next_venta + 1
    /\ llamada' = [op |-> "venta_crear", id |-> next_venta, ret |-> TRUE]
    /\ UNCHANGED <<items, next_item, puntos, insumo, receta, pc, mem, inicial, recetario, personal>>

\* venta_edit, adding a line: rejected unless the sale can be modified
ItemAgregar(v, l) ==
    /\ v \in DOMAIN venta
    /\ next_item <= MaxItems
    /\ IF puede_modificar(venta[v])
       THEN /\ items' = items @@ (next_item :>
                   [venta |-> v, producto |-> l.producto, precio |-> l.precio,
                    cantidad |-> l.cantidad])
            /\ next_item' = next_item + 1
            /\ llamada' = [op |-> "item_agregar", id |-> v, ret |-> TRUE]
       ELSE /\ UNCHANGED <<items, next_item>>
            /\ llamada' = [op |-> "item_agregar", id |-> v, ret |-> FALSE]
    /\ UNCHANGED <<venta, next_venta, puntos, insumo, receta, pc, mem, inicial, recetario, personal>>

\* venta_edit, changing a line
ItemEditar(i, l) ==
    /\ i \in DOMAIN items
    /\ IF puede_modificar(venta[items[i].venta])
       THEN /\ items' = [items EXCEPT ![i] =
                   [venta |-> items[i].venta, producto |-> l.producto, precio |-> l.precio,
                    cantidad |-> l.cantidad]]
            /\ llamada' = [op |-> "item_editar", id |-> items[i].venta, ret |-> TRUE]
       ELSE /\ UNCHANGED items
            /\ llamada' = [op |-> "item_editar", id |-> items[i].venta, ret |-> FALSE]
    /\ UNCHANGED <<venta, next_venta, next_item, puntos, insumo, receta, pc, mem, inicial, recetario, personal>>

\* venta_edit, removing a line
ItemQuitar(i) ==
    /\ i \in DOMAIN items
    /\ IF puede_modificar(venta[items[i].venta])
       THEN /\ items' = Restrict(items, DOMAIN items \ {i})
            /\ llamada' = [op |-> "item_quitar", id |-> items[i].venta, ret |-> TRUE]
       ELSE /\ UNCHANGED items
            /\ llamada' = [op |-> "item_quitar", id |-> items[i].venta, ret |-> FALSE]
    /\ UNCHANGED <<venta, next_venta, next_item, puntos, insumo, receta, pc, mem, inicial, recetario, personal>>

\* the balance of the customer of a sale as finalizar leaves it
puntos_tras_finalizar(self, cli) ==
    asignar_puntos_cliente(self, canjear_puntos(self, cli))

\* the stored tables as one record
BD == [venta |-> venta, items |-> items, puntos |-> puntos, insumo |-> insumo,
       receta |-> receta]

\* the redemption computed from the cached totals, before they are recomputed
finalizar_canje_en_cache(bd, v) ==
    IF ~puede_modificar(bd.venta[v]) THEN bd
    ELSE LET c == bd.venta[v].cliente
             v1 == aplicar_puntos_auto(bd.venta[v], IF c = 0 THEN 0 ELSE bd.puntos[c])
             v2 == calcular_totales(v1, v, bd.items, bd.receta, bd.insumo)
         IN  [bd EXCEPT
                !.insumo = descontar_inventario(v, bd.items, bd.receta, bd.insumo),
                !.puntos = IF c = 0 THEN bd.puntos
                           ELSE [bd.puntos EXCEPT ![c] = puntos_tras_finalizar(v2, bd.puntos[c])],
                !.venta = guardar(bd.venta, v, [v2 EXCEPT !.estado = "finalizada"])]

\* Venta.finalizar() run from its first line to its last on the tables bd
finalizar(bd, v) ==
    IF ~puede_modificar(bd.venta[v]) THEN bd
    ELSE LET c == bd.venta[v].cliente
             v1 == calcular_totales(bd.venta[v], v, bd.items, bd.receta, bd.insumo)
             v2 == aplicar_puntos_auto(v1, IF c = 0 THEN 0 ELSE bd.puntos[c])
         IN  [bd EXCEPT
                !.insumo = descontar_inventario(v, bd.items, bd.receta, bd.insumo),
                !.puntos = IF c = 0 THEN bd.puntos
                           ELSE [bd.puntos EXCEPT ![c] = puntos_tras_finalizar(v2, bd.puntos[c])],
                !.venta = guardar(bd.venta, v, [v2 EXCEPT !.estado = "finalizada"])]

\* venta_finalize: loads the sale v and calls finalizar()
Finalizar(v) ==
    /\ v \in DOMAIN venta
    /\ LET bd == finalizar(BD, v)
       IN  /\ venta' = bd.venta
           /\ puntos' = bd.puntos
           /\ insumo' = bd.insumo
    /\ llamada' = [op |-> "finalizar", id |-> v, ret |-> puede_modificar(venta[v])]
    /\ UNCHANGED <<items, next_venta, next_item, receta, pc, mem, inicial, recetario, personal>>

\* a cancel that checks nothing
cancelar_rechaza_nunca(self) == self.estado \notin {"pendiente", "finalizada"}

cancelar_rechaza(self) == self.estado # "pendiente"

\* venta_cancel: loads the sale v and calls cancelar()
Cancelar(v) ==
    /\ v \in DOMAIN venta
    /\ IF cancelar_rechaza(venta[v])
       THEN /\ UNCHANGED <<venta, items>>
            /\ llamada' = [op |-> "cancelar", id |-> v, ret |-> FALSE]
       ELSE /\ venta' = borrar_venta(venta, v)
            /\ items' = borrar_items(items, v)
            /\ llamada' = [op |-> "cancelar", id |-> v, ret |-> TRUE]
    /\ UNCHANGED <<next_venta, next_item, puntos, insumo, receta, pc, mem, inicial, recetario, personal>>

Next ==
    \/ \E c \in Clientes, p \in PuntosForm : ClienteCrear(c, p)
    \/ \E c \in Clientes, p \in PuntosForm : ClienteEditar(c, p)
    \/ \E c \in {0} \cup Clientes : VentaCrear(c)
    \/ \E v \in VentaIds, l \in Lineas : ItemAgregar(v, l)
    \/ \E i \in 1..MaxItems, l \in Lineas : ItemEditar(i, l)
    \/ \E i \in 1..MaxItems : ItemQuitar(i)
    \/ \E v \in VentaIds : Finalizar(v)
    \/ \E v \in VentaIds : Cancelar(v)

Spec == Init /\ [][Next]_vars

(***************************************************************************)
(* Requests that interleave.  Every access to the database inside          *)
(* finalizar() and cancelar() is a step of its own: no transaction wraps   *)
(* them, so each save() is committed when it returns.  mem[r] holds the    *)
(* model instances request r has loaded: the Venta (mem[r].venta), the     *)
(* balance of self.cliente once it was fetched (mem[r].cli), the Insumo    *)
(* fetched by pr.insumo (mem[r].ins), and the rows still to visit in       *)
(* descontar_inventario (mem[r].tareas).                                   *)
(***************************************************************************)
Escenario(p) ==
    [venta |-> (1 :> nueva_venta(1)) @@ (2 :> nueva_venta(1)),
     items |-> (1 :> [venta |-> 1, producto |-> 1, precio |-> 5000, cantidad |-> 1]) @@
               (2 :> [venta |-> 2, producto |-> 2, precio |-> 4775, cantidad |-> 2]),
     puntos |-> (1 :> p),
     insumo |-> Catalogo.insumo,
     receta |-> Catalogo.receta]

\* two pending sales of one customer, each with a line, and no request running
InitConc ==
    /\ \E p \in PuntosConc :
          /\ venta = Escenario(p).venta
          /\ items = Escenario(p).items
          /\ puntos = Escenario(p).puntos
          /\ inicial = Escenario(p)
    /\ next_venta = 3
    /\ next_item = 3
    /\ insumo = Catalogo.insumo
    /\ receta = Catalogo.receta
    /\ llamada = [op |-> "", id |-> 0, ret |-> FALSE]
    /\ pc = [r \in Requests |-> "idle"]
    /\ mem = [r \in Requests |-> SinMem]
    /\ RecetarioFijo
    /\ SinPersonal

\* venta_finalize / venta_cancel: fetch the sale, enter the method, test the state
Cargar(r, o, v) ==
    /\ pc[r] = "idle"
    /\ v \in DOMAIN venta
    /\ mem' = [mem EXCEPT ![r] = [SinMem EXCEPT !.op = o, !.id = v, !.venta = venta[v]]]
    /\ pc' = [pc EXCEPT ![r] =
                 IF o = "finalizar"
                 THEN IF puede_modificar(venta[v]) THEN "totales" ELSE "done"
                 ELSE IF cancelar_rechaza(venta[v]) THEN "done" ELSE "borrar"]
    /\ UNCHANGED <<store, llamada, inicial, recetario, personal>>

\* self.calcular_totales()
Totales(r) ==
    /\ pc[r] = "totales"
    /\ mem' = [mem EXCEPT ![r].venta =
                  calcular_totales(mem[r].venta, mem[r].id, items, receta, insumo)]
    /\ pc' = [pc EXCEPT ![r] = "puntos"]
    /\ UNCHANGED <<store, llamada, inicial, recetario, personal>>

\* self.aplicar_puntos_auto(): the first use of self.cliente fetches the customer
Puntos(r) ==
    /\ pc[r] = "puntos"
    /\ LET c == mem[r].venta.cliente
           cli == IF c = 0 THEN 0 ELSE puntos[c]
       IN  mem' = [mem EXCEPT ![r].cli = cli,
                              ![r].venta = aplicar_puntos_auto(mem[r].venta, cli)]
    /\ pc' = [pc EXCEPT ![r] = "items"]
    /\ UNCHANGED <<store, llamada, inicial, recetario, personal>>

\* self.descontar_inventario(): the query self.items.all()
Items(r) ==
    /\ pc[r] = "items"
    /\ LET ts == tareas_de(venta_items(items, mem[r].id), items, receta)
       IN  /\ mem' = [mem EXCEPT ![r].tareas = ts]
           /\ pc' = [pc EXCEPT ![r] = IF ts = <<>> THEN "canjear" ELSE "leer"]
    /\ UNCHANGED <<store, llamada, inicial, recetario, personal>>

\* descontar_insumos: ins = pr.insumo fetches the Insumo row
Leer(r) ==
    /\ pc[r] = "leer"
    /\ mem' = [mem EXCEPT ![r].ins = insumo[Head(mem[r].tareas).pr.insumo]]
    /\ pc' = [pc EXCEPT ![r] = "escribir"]
    /\ UNCHANGED <<store, llamada, inicial, recetario, personal>>

\* descontar_insumos: ins.cantidad = ...; ins.save()
Escribir(r) ==
    /\ pc[r] = "escribir"
    /\ LET t == Head(mem[r].tareas)
           fila == [mem[r].ins EXCEPT !.cantidad = descontar_uno(mem[r].ins, t.pr, t.cant)]
       IN  /\ insumo' = guardar(insumo, t.pr.insumo, fila)
           /\ mem' = [mem EXCEPT ![r].tareas = Tail(mem[r].tareas), ![r].ins = fila]
           /\ pc' = [pc EXCEPT ![r] = IF Tail(mem[r].tareas) = <<>> THEN "canjear" ELSE "leer"]
    /\ UNCHANGED <<venta, items, next_venta, next_item, puntos, receta, llamada, inicial, recetario, personal>>

\* finalizar, lines 353-355: the redemption, saved from the loaded customer
Canjear(r) ==
    /\ pc[r] = "canjear"
    /\ LET c == mem[r].venta.cliente
           cli == canjear_puntos(mem[r].venta, mem[r].cli)
       IN  /\ mem' = [mem EXCEPT ![r].cli = cli]
           /\ puntos' = IF c # 0 /\ mem[r].venta.puntos_usados # 0
                        THEN guardar(puntos, c, cli) ELSE puntos
    /\ pc' = [pc EXCEPT ![r] = "asignar"]
    /\ UNCHANGED <<venta, items, next_venta, next_item, insumo, receta, llamada, inicial, recetario, personal>>

\* self.asignar_puntos_cliente()
Asignar(r) ==
    /\ pc[r] = "asignar"
    /\ LET c == mem[r].venta.cliente
           cli == asignar_puntos_cliente(mem[r].venta, mem[r].cli)
       IN  /\ mem' = [mem EXCEPT ![r].cli = cli]
           /\ puntos' = IF c # 0 /\ puntos_ganados(mem[r].venta) > 0
                        THEN guardar(puntos, c, cli) ELSE puntos
    /\ pc' = [pc EXCEPT ![r] = "guardar"]
    /\ UNCHANGED <<venta, items, next_venta, next_item, insumo, receta, llamada, inicial, recetario, personal>>

\* self.estado = 'finalizada'; self.save(); return True
Guardar(r) ==
    /\ pc[r] = "guardar"
    /\ LET fila == [mem[r].venta EXCEPT !.estado = "finalizada"]
       IN  /\ venta' = guardar(venta, mem[r].id, fila)
           /\ mem' = [mem EXCEPT ![r].venta = fila, ![r].ret = TRUE]
    /\ pc' = [pc EXCEPT ![r] = "done"]
    /\ UNCHANGED <<items, next_venta, next_item, puntos, insumo, receta, llamada, inicial, recetario, personal>>

\* cancelar: self.delete(); return True
Borrar(r) ==
    /\ pc[r] = "borrar"
    /\ venta' = borrar_venta(venta, mem[r].id)
    /\ items' = borrar_items(items, mem[r].id)
    /\ mem' = [mem EXCEPT ![r].ret = TRUE]
    /\ pc' = [pc EXCEPT ![r] = "done"]
    /\ UNCHANGED <<next_venta, next_item, puntos, insumo, receta, llamada, inicial, recetario, personal>>

\* the request stops inside the method: what it has saved stays saved
Falla(r) ==
    /\ pc[r] \notin {"idle", "done", "fallo"}
    /\ pc' = [pc EXCEPT ![r] = "fallo"]
    /\ UNCHANGED <<store, llamada, mem, inicial, recetario, personal>>

NextConc ==
    \/ \E r \in Requests, o \in {"finalizar", "cancelar"}, v \in VentaIds : Cargar(r, o, v)
    \/ \E r \in Requests : Totales(r)
    \/ \E r \in Requests : Puntos(r)
    \/ \E r \in Requests : Items(r)
    \/ \E r \in Requests : Leer(r)
    \/ \E r \in Requests : Escribir(r)
    \/ \E r \in Requests : Canjear(r)
    \/ \E r \in Requests : Asignar(r)
    \/ \E r \in Requests : Guardar(r)
    \/ \E r \in Requests : Borrar(r)
    \/ \E r \in Requests : Falla(r)

SpecConc == InitConc /\ [][NextConc]_vars


(***************************************************************************)
(* Properties of the requests served one at a time (Spec).                 *)
(***************************************************************************)
LineasDe(its, v) == {i \in DOMAIN its : its[i].venta = v}

RECURSIVE PrecioLineas(_, _)
\* the sum of price * quantity over a set of lines, in cents
PrecioLineas(its, S) ==
    IF S = {} THEN 0
    ELSE LET i == CHOOSE x \in S : TRUE
         IN  its[i].precio * its[i].cantidad + PrecioLineas(its, S \ {i})

EsLlamada(o, v) == llamada'.op = o /\ llamada'.id = v

\* C1: finalizar() on a sale that is not pending returns False and changes no
\* ingredient quantity, no customer balance and nothing of the sale (state,
\* cached totals, puntos_usados) or of its lines.
C1_FinalizarRechazaNoPendiente ==
    [][\A v \in VentaIds :
          (EsLlamada("finalizar", v) /\ v \in DOMAIN venta /\ venta[v].estado # "pendiente")
          => /\ llamada'.ret = FALSE
             /\ UNCHANGED <<venta, items, puntos, insumo>>]_vars

\* a second finalizar() was refused on a finalized sale that has a customer and
\* a line with a product
C1_Witness ==
    /\ llamada.op = "finalizar"
    /\ llamada.ret = FALSE
    /\ llamada.id \in DOMAIN venta
    /\ venta[llamada.id].estado = "finalizada"
    /\ venta[llamada.id].cliente # 0
    /\ \E i \in LineasDe(items, llamada.id) : items[i].producto # 0

\* C2: cancelar() on a finalized sale returns False, and the sale and all of
\* its lines are still stored, unchanged.
C2_CancelarTrasFinalizar ==
    [][\A v \in VentaIds :
          (EsLlamada("cancelar", v) /\ v \in DOMAIN venta /\ venta[v].estado = "finalizada")
          => /\ llamada'.ret = FALSE
             /\ v \in DOMAIN venta'
             /\ venta'[v] = venta[v]
             /\ items' = items]_vars

C2_Witness ==
    /\ llamada.op = "cancelar"
    /\ llamada.ret = FALSE
    /\ llamada.id \in DOMAIN venta
    /\ venta[llamada.id].estado = "finalizada"
    /\ LineasDe(items, llamada.id) # {}

Borrada(tabla, siguiente, v) == v < siguiente /\ v \notin DOMAIN tabla

\* C3: a sale is created pending; pending -> finalized happens only by
\* finalizar, pending -> deleted only by cancelar; a finalized sale stays
\* stored and finalized, and a deleted sale is never stored again.
C3_CicloDeVida ==
    [][\A v \in VentaIds :
          /\ (v \notin DOMAIN venta /\ v \in DOMAIN venta')
             => (~Borrada(venta, next_venta, v) /\ venta'[v].estado = "pendiente")
          /\ (v \in DOMAIN venta /\ venta[v].estado = "finalizada")
             => (v \in DOMAIN venta' /\ venta'[v].estado = "finalizada")
          /\ (v \in DOMAIN venta /\ venta[v].estado = "pendiente" /\ v \in DOMAIN venta')
             => \/ venta'[v].estado = "pendiente"
                \/ venta'[v].estado = "finalizada" /\ EsLlamada("finalizar", v)
          /\ (v \in DOMAIN venta /\ v \notin DOMAIN venta')
             => (venta[v].estado = "pendiente" /\ EsLlamada("cancelar", v))
          /\ Borrada(venta, next_venta, v) => Borrada(venta', next_venta', v)]_vars

\* one sale was finalized and another one cancelled
C3_Witness ==
    /\ \E v \in DOMAIN venta : venta[v].estado = "finalizada"
    /\ \E v \in VentaIds : Borrada(venta, next_venta, v)
    /\ llamada.op \notin {"finalizar", "cancelar"}

C8_PuntosCanjeados ==
    [][\A v \in VentaIds :
          (EsLlamada("finalizar", v) /\ llamada'.ret = TRUE)
          => /\ venta'[v].estado = "finalizada"
             /\ venta'[v].puntos_usados =
                   IF venta[v].cliente = 0 THEN 0
                   ELSE Min(puntos[venta[v].cliente],
                            PrecioLineas(items, LineasDe(items, v)) \div 100)]_vars

\* a customer with 200 points and a total of 50.00: 50 points redeemed
C8_Witness ==
    \E v \in DOMAIN venta :
        /\ llamada = [op |-> "finalizar", id |-> v, ret |-> TRUE]
        /\ venta[v].cliente # 0
        /\ venta[v].precio_total_cache = 5000
        /\ venta[v].puntos_usados = 50
        /\ puntos[venta[v].cliente] = 150

\* C9: a successful finalizar() of a sale with a customer adds
\* floor(max(0, total - redeemed) / 10) points to the balance left by the
\* redemption, and writes no award when that number is 0; without a customer
\* no balance changes.
C9_PuntosGanados ==
    [][\A v \in VentaIds :
          (EsLlamada("finalizar", v) /\ llamada'.ret = TRUE)
          => LET c == venta[v].cliente
                 r == venta'[v].puntos_usados
                 total == PrecioLineas(items, LineasDe(items, v))
                 final == Max(0, total - 100 * r)
                 ganados == final \div 1000
                 canjeado == IF r # 0 THEN Max(0, puntos[c] - r) ELSE puntos[c]
             IN  IF c = 0 THEN puntos' = puntos
                 ELSE puntos' = [puntos EXCEPT ![c] =
                                    IF ganados > 0 THEN canjeado + ganados ELSE canjeado]]_vars

\* a total of 95.50 with nothing redeemed: 9 points awarded
C9_Witness ==
    \E v \in DOMAIN venta :
        /\ llamada = [op |-> "finalizar", id |-> v, ret |-> TRUE]
        /\ venta[v].cliente # 0
        /\ venta[v].precio_total_cache = 9550
        /\ venta[v].puntos_usados = 0
        /\ puntos[venta[v].cliente] = 9

\* C10: the balance of every customer is >= 0.
C10_PuntosNoNegativos == \A c \in DOMAIN puntos : puntos[c] >= 0

(***************************************************************************)
(* Properties of the interleaved requests (SpecConc).                      *)
(***************************************************************************)
Hecho(r, o) == pc[r] = "done" /\ mem[r].op = o /\ mem[r].ret = TRUE

\* C5: finalizar() is all-or-nothing: when a request stopped inside it and no
\* other request has run, every stored row is as it was before the request
\* (no quantity deducted, no balance changed, the sale pending with its old
\* totals).
C5_TodoONada ==
    \A r \in Requests :
        (pc[r] = "fallo" /\ \A q \in Requests \ {r} : pc[q] = "idle")
        => /\ venta = inicial.venta
           /\ items = inicial.items
           /\ puntos = inicial.puntos
           /\ insumo = inicial.insumo

\* C6: of two requests on the same pending sale, finalizar/finalizar or
\* finalizar/cancelar, at most one succeeds, and a sale that a successful
\* cancelar() deleted is not stored once both have ended.
C6_UnSoloExito ==
    /\ \A r, q \in Requests :
          (r # q /\ mem[r].id = mem[q].id /\ mem[r].op = "finalizar"
           /\ pc[r] = "done" /\ pc[q] = "done")
          => ~(mem[r].ret /\ mem[q].ret)
    /\ \A r \in Requests :
          (Hecho(r, "cancelar") /\ \A q \in Requests : pc[q] \in {"idle", "done"})
          => mem[r].id \notin DOMAIN venta

\* C7: two different sales finalized by two requests leave the quantities and
\* the balances that finalizing one sale and then the other leaves, in one of
\* the two orders.
C7_Serializable ==
    \A r, q \in Requests :
        (r # q /\ mem[r].id # mem[q].id /\ Hecho(r, "finalizar") /\ Hecho(q, "finalizar"))
        => LET a == finalizar(finalizar(inicial, mem[r].id), mem[q].id)
               b == finalizar(finalizar(inicial, mem[q].id), mem[r].id)
           IN  \/ insumo = a.insumo /\ puntos = a.puntos
               \/ insumo = b.insumo /\ puntos = b.puntos

(***************************************************************************)
(* Unit conversion on its own: a product with one recipe row over one      *)
(* ingredient, in every combination of units the two forms accept.  The    *)
(* conversion is also called on units the Insumo form does not offer       *)
(* ("docena" as the ingredient's unit), as a function of its arguments.    *)
(***************************************************************************)
UNIDADES_INSUMO == {"kg", "g", "l", "ml", "unidad"}

UNIDADES_RECETA == {"kg", "g", "l", "ml", "unidad", "docena"}

\* ProductoReceta.cantidad, in thousandths: 0.001, 0.5, 1 and 12
Cantidades == {1, 500, 1000, 12000}

\* VentaItem.cantidad
CantidadesItem == {1, 2}

\* no request served yet
SinLlamada == [op |-> ""]

SinVentas ==
    /\ venta = Vacia
    /\ items = Vacia
    /\ next_venta = 1
    /\ next_item = 1
    /\ puntos = Vacia
    /\ pc = [r \in Requests |-> "idle"]
    /\ mem = [r \in Requests |-> SinMem]
    /\ inicial = <<>>

InitUnidades ==
    /\ SinVentas
    /\ SinPersonal
    /\ \E u \in UNIDADES_INSUMO :
          insumo = (1 :> [cantidad |-> 1000, unidad |-> u, costo_por_unidad |-> 300])
    /\ \E q \in Cantidades, u \in UNIDADES_RECETA :
          receta = (1 :> [producto |-> 1, insumo |-> 1, cantidad |-> q, unidad |-> u])
    /\ producto = (1 :> [precio_venta |-> 150])
    /\ next_producto = 2
    /\ next_receta = 2
    /\ llamada = SinLlamada

\* cantidad_equivalente_insumo() on the quantity and unit of the stored row r,
\* for an ingredient kept in insumo_u
CantidadEquivalente(r, insumo_u) ==
    /\ r \in DOMAIN receta
    /\ llamada' = [op |-> "cantidad_equivalente_insumo",
                   q |-> receta[r].cantidad, receta_u |-> receta[r].unidad,
                   insumo_u |-> insumo_u,
                   equivalente |-> cantidad_equivalente_insumo(
                               receta[r], [unidad |-> insumo_u])]
    /\ UNCHANGED <<store, pc, mem, inicial, recetario, personal>>

\* receta.costo_total() on a stored row
CostoTotal(r) ==
    /\ r \in DOMAIN receta
    /\ llamada' = [op |-> "costo_total", receta |-> r,
                   costo |-> receta_costo_total(receta[r], insumo[receta[r].insumo])]
    /\ UNCHANGED <<store, pc, mem, inicial, recetario, personal>>

\* the exploration deducts one sale line from the full stock and no second
\* one; the code has no such test
StockIntacto(insu) == \A i \in DOMAIN insu : insu[i].cantidad = 1000

\* item.descontar_insumos() for a sale line of product p and quantity cant
DescontarInsumos(p, cant) ==
    /\ p \in DOMAIN producto
    /\ StockIntacto(insumo)
    /\ LET it == [venta |-> 0, producto |-> p, precio |-> producto[p].precio_venta,
                  cantidad |-> cant]
       IN  insumo' = descontar_tareas(tareas_de(<<1>>, <<it>>, receta), insumo)
    /\ llamada' = [op |-> "descontar_insumos", producto |-> p, cantidad |-> cant]
    /\ UNCHANGED <<venta, items, next_venta, next_item, puntos, receta,
                   pc, mem, inicial, recetario, personal>>

\* InsumoForm: what is typed into cantidad and costo_por_unidad, in hundredths
CantidadesForm == {-100, 0, 1000}

CostosForm == {-1, 300}

\* MinValueValidator(0) on Insumo.cantidad and Insumo.costo_por_unidad
insumo_valido(cantidad, costo_por_unidad) == cantidad >= 0 /\ costo_por_unidad >= 0

\* InsumoUpdateView: the form is saved when it validates
InsumoEditar(i, cantidad, costo_por_unidad) ==
    /\ i \in DOMAIN insumo
    /\ IF insumo_valido(cantidad, costo_por_unidad)
       THEN insumo' = [insumo EXCEPT ![i].cantidad = cantidad,
                                     ![i].costo_por_unidad = costo_por_unidad]
       ELSE UNCHANGED insumo
    /\ llamada' = [op |-> "insumo_editar", insumo |-> i,
                   valido |-> insumo_valido(cantidad, costo_por_unidad)]
    /\ UNCHANGED <<venta, items, next_venta, next_item, puntos, receta,
                   pc, mem, inicial, recetario, personal>>

NextUnidades ==
    \/ \E r \in {1}, insumo_u \in UNIDADES_RECETA : CantidadEquivalente(r, insumo_u)
    \/ \E r \in {1} : CostoTotal(r)
    \/ \E p \in {1}, cant \in CantidadesItem : DescontarInsumos(p, cant)
    \/ \E i \in {1}, cantidad \in CantidadesForm, costo_por_unidad \in CostosForm :
          InsumoEditar(i, cantidad, costo_por_unidad)

SpecUnidades == InitUnidades /\ [][NextUnidades]_vars

\* C11: the quantity on hand and the cost per unit of every ingredient are
\* never negative, whatever ingredient edits and deductions of sale lines
\* came before.
C11_InsumoNoNegativo ==
    \A i \in DOMAIN insumo : insumo[i].cantidad >= 0 /\ insumo[i].costo_por_unidad >= 0

\* two fractions that denote the same number
Igual(a, b) == a.num * b.den = b.num * a.den

\* the fraction a times the integer n
Por(a, n) == [num |-> a.num * n, den |-> a.den]

\* C12: the conversion returns q for equal units, q*1000 for kg->g and l->ml,
\* q/1000 for g->kg and ml->l, q*12 for docena->unidad and q/12 for
\* unidad->docena; for the pairs of factor 1000, converting the result back
\* returns q.
C12_Conversion ==
    llamada.op = "cantidad_equivalente_insumo" =>
        LET q == [num |-> llamada.q, den |-> 1000]
            receta_u == llamada.receta_u
            insumo_u == llamada.insumo_u
            e == llamada.equivalente
        IN  /\ receta_u = insumo_u => Igual(e, q)
            /\ <<receta_u, insumo_u>> \in {<<"kg", "g">>, <<"l", "ml">>}
               => Igual(e, Por(q, 1000))
            /\ <<receta_u, insumo_u>> \in {<<"g", "kg">>, <<"ml", "l">>}
               => Igual(Por(e, 1000), q)
            /\ <<receta_u, insumo_u>> = <<"docena", "unidad">>
               => Igual(e, Por(q, 12))
            /\ <<receta_u, insumo_u>> = <<"unidad", "docena">>
               => Igual(Por(e, 12), q)
            /\ <<receta_u, insumo_u>> \in {<<"kg", "g">>, <<"g", "kg">>,
                                           <<"l", "ml">>, <<"ml", "l">>}
               => Igual(convertir(e, insumo_u, receta_u), q)

\* 1 kg was converted to 1000 g
C12_Witness ==
    /\ llamada.op = "cantidad_equivalente_insumo"
    /\ llamada.q = 1000
    /\ llamada.receta_u = "kg"
    /\ llamada.insumo_u = "g"
    /\ llamada.equivalente = [num |-> 1000, den |-> 1]

Convertibles ==
    {<<"kg", "g">>, <<"g", "kg">>, <<"l", "ml">>, <<"ml", "l">>,
     <<"docena", "unidad">>, <<"unidad", "docena">>}

Incompatibles(receta_u, insumo_u) ==
    receta_u # insumo_u /\ <<receta_u, insumo_u>> \notin Convertibles

\* C13: for a pair of units that is neither equal nor kg<->g, l<->ml or
\* docena<->unidad the conversion returns the quantity unchanged, the cost of
\* the recipe row is that quantity times the cost per unit (4 places), and the
\* deduction takes that quantity times the line's quantity from the stock.
C13_SinConversion ==
    [][/\ (llamada'.op = "cantidad_equivalente_insumo"
           /\ Incompatibles(llamada'.receta_u, llamada'.insumo_u))
          => Igual(llamada'.equivalente, [num |-> llamada'.q, den |-> 1000])
       /\ \A r \in DOMAIN receta :
             Incompatibles(receta[r].unidad, insumo[receta[r].insumo].unidad)
             => /\ (llamada'.op = "costo_total" /\ llamada'.receta = r)
                   => llamada'.costo = RoundHalfEven(
                          receta[r].cantidad * insumo[receta[r].insumo].costo_por_unidad, 10)
                /\ \A cant \in CantidadesItem :
                      (/\ llamada'.op = "descontar_insumos"
                       /\ llamada'.producto = receta[r].producto
                       /\ llamada'.cantidad = cant)
                      => insumo'[receta[r].insumo].cantidad =
                             RoundHalfUp(insumo[receta[r].insumo].cantidad * 10
                                             - receta[r].cantidad * cant, 10)]_vars

\* 0.5 "g" of an ingredient kept in litres: 0.5 l was taken from the stock
C13_Witness ==
    /\ llamada.op = "descontar_insumos"
    /\ llamada.cantidad = 1
    /\ receta[1].unidad = "g"
    /\ receta[1].cantidad = 500
    /\ insumo[1].unidad = "l"
    /\ insumo[1].cantidad = 950

(***************************************************************************)
(* Products and their recipes: the views that write core_producto and      *)
(* core_productoreceta, and the detail page that shows cost and margin.    *)
(* A Producto row is [precio_venta].  The name of an ingredient is its id. *)
(***************************************************************************)
\* the keys the products are created under
ProductoIds == {1, 2}

\* the AutoField values of core_productoreceta the exploration hands out
MaxRecetas == 3

Despensa ==
    (1 :> [cantidad |-> 1000, unidad |-> "kg", costo_por_unidad |-> 300]) @@
    (2 :> [cantidad |-> 1000, unidad |-> "l", costo_por_unidad |-> 150])

\* ProductoRecetaForm: what is typed into insumo, cantidad and unidad
Renglones ==
    {[insumo |-> 1, cantidad |-> 500, unidad |-> "kg"],
     [insumo |-> 2, cantidad |-> 1000, unidad |-> "l"],
     [insumo |-> 2, cantidad |-> 0, unidad |-> "ml"]}

\* ProductoForm.precio_venta, in cents
PreciosForm == {150}

\* Producto.costo_total(), in ten-thousandths
producto_costo_total(p, rec, insu) ==
    LET prs == receta_items(rec, p)
    IN  SumSeq([n \in 1..Len(prs) |-> receta_costo_total(prs[n], insu[prs[n].insumo])])

\* a product that costs nothing has a margin of 100 %
margen_ganancia_todo_ganancia(self, p, rec, insu) ==
    LET costo == producto_costo_total(p, rec, insu)
    IN  IF costo = 0 THEN 10000
        ELSE RoundHalfEven((self.precio_venta * 100 - costo) * 10000, costo)

\* Producto.margen_ganancia(), in hundredths of a percent; the quotient has
\* 28 significant digits, which round(.., 2) cannot tell from the exact one
margen_ganancia(self, p, rec, insu) ==
    LET costo == producto_costo_total(p, rec, insu)
    IN  IF costo = 0 THEN 0
        ELSE RoundHalfEven((self.precio_venta * 100 - costo) * 10000, costo)

\* the primary keys of the recipe rows of product p, ORDER BY insumo
receta_pks(rec, p) ==
    LET ids == {r \in DOMAIN rec : rec[r].producto = p}
        key(r) == rec[r].insumo * 1000 + r
        ks == SeqOfSet({key(r) : r \in ids})
    IN  [n \in 1..Len(ks) |-> CHOOSE r \in ids : key(r) = ks[n]]

\* a form of the inline formset: id = 0 is an extra (new) form
Mismo == [insumo |-> 0, cantidad |-> 0, unidad |-> ""]

Opciones ==
    {[DELETE |-> FALSE, renglon |-> x] : x \in Renglones \cup {Mismo}}
        \cup {[DELETE |-> TRUE, renglon |-> Mismo]}

forma_existente(rec, r, o) ==
    LET d == IF o.renglon = Mismo
             THEN [insumo |-> rec[r].insumo, cantidad |-> rec[r].cantidad,
                   unidad |-> rec[r].unidad]
             ELSE o.renglon
    IN  [id |-> r, insumo |-> d.insumo, cantidad |-> d.cantidad,
         unidad |-> d.unidad, DELETE |-> o.DELETE]

forma_nueva(t) ==
    [id |-> 0, insumo |-> t.insumo, cantidad |-> t.cantidad, unidad |-> t.unidad,
     DELETE |-> FALSE]

\* formset.forms: the forms of the stored rows, then the extra forms
formset_forms(rec, p, cambios, nuevos) ==
    LET pks == receta_pks(rec, p)
    IN  [n \in 1..Len(pks) |-> forma_existente(rec, pks[n], cambios[pks[n]])]
        \o [n \in 1..Len(nuevos) |-> forma_nueva(nuevos[n])]

\* the ingredients that come a second time in a sequence of forms
repetidos_en(forms) ==
    {forms[j].insumo : j \in {k \in 1..Len(forms) :
                                \E i \in 1..(k - 1) : forms[i].insumo = forms[k].insumo}}

\* ModelForm.validate_unique of one form of the formset of a stored product:
\* another stored row of the product has the ingredient
forma_choca(rec, p, f) ==
    \E r \in DOMAIN rec : r # f.id /\ rec[r].producto = p /\ rec[r].insumo = f.insumo

\* BaseProductoRecetaFormSet.clean on the forms not marked DELETE.  guardado
\* says whether the product has a primary key.  super().clean() compares the
\* forms that are valid with each other and raises without a name; the loop
\* over self.forms then runs only when it found nothing, and names what it
\* finds.
formset_clean(rec, p, guardado, forms) ==
    LET vivos == SelectSeq(forms, LAMBDA f : ~f.DELETE)
        choca(f) == guardado /\ forma_choca(rec, p, f)
        validos == SelectSeq(vivos, LAMBDA f : ~choca(f))
    IN  IF repetidos_en(validos) # {}
        THEN [valido |-> FALSE, nombres |-> {}]
        ELSE IF repetidos_en(vivos) # {}
        THEN [valido |-> FALSE, nombres |-> repetidos_en(vivos)]
        ELSE [valido |-> \A n \in 1..Len(vivos) : ~choca(vivos[n]), nombres |-> {}]

RECURSIVE formset_save(_, _, _, _)
\* formset.save(): delete, update or insert, form by form
formset_save(rec, sig, p, forms) ==
    IF forms = <<>> THEN [receta |-> rec, next_receta |-> sig]
    ELSE LET f == Head(forms)
             fila == [producto |-> p, insumo |-> f.insumo, cantidad |-> f.cantidad,
                      unidad |-> f.unidad]
         IN  IF f.DELETE
             THEN formset_save(Restrict(rec, DOMAIN rec \ {f.id}), sig, p, Tail(forms))
             ELSE IF f.id # 0
             THEN formset_save(guardar(rec, f.id, fila), sig, p, Tail(forms))
             ELSE formset_save(guardar(rec, sig, fila), sig + 1, p, Tail(forms))

FormsNuevos(n) == UNION {[1..k -> Renglones] : k \in 0..n}

InitReceta ==
    /\ SinVentas
    /\ SinPersonal
    /\ insumo = Despensa
    /\ producto = Vacia
    /\ receta = Vacia
    /\ next_producto = 1
    /\ next_receta = 1
    /\ llamada = SinLlamada

\* ProductoCreateView.post
ProductoCrear(precio_venta, nuevos) ==
    /\ next_producto \in ProductoIds
    /\ next_receta + Len(nuevos) <= MaxRecetas + 1
    /\ LET p == next_producto
           forms == formset_forms(receta, p, Vacia, nuevos)
           c == formset_clean(receta, p, FALSE, forms)
       IN  /\ IF c.valido
              THEN /\ producto' = guardar(producto, p, [precio_venta |-> precio_venta])
                   /\ next_producto' = p + 1
                   /\ receta' = formset_save(receta, next_receta, p, forms).receta
                   /\ next_receta' = formset_save(receta, next_receta, p, forms).next_receta
              ELSE UNCHANGED <<producto, next_producto, receta, next_receta>>
           /\ llamada' = [op |-> "producto_crear",
                          repetidos |-> repetidos_en(forms),
                          rechazo |-> ~c.valido, nombres |-> c.nombres]
    /\ UNCHANGED <<venta, items, next_venta, next_item, puntos, insumo,
                   pc, mem, inicial, personal>>

\* ProductoUpdateView.post
ProductoActualizar(p, precio_venta, cambios, nuevos) ==
    /\ p \in DOMAIN producto
    /\ next_receta + Len(nuevos) <= MaxRecetas + 1
    /\ LET forms == formset_forms(receta, p, cambios, nuevos)
           c == formset_clean(receta, p, TRUE, forms)
       IN  /\ IF c.valido
              THEN /\ producto' = guardar(producto, p, [precio_venta |-> precio_venta])
                   /\ receta' = formset_save(receta, next_receta, p, forms).receta
                   /\ next_receta' = formset_save(receta, next_receta, p, forms).next_receta
              ELSE UNCHANGED <<producto, receta, next_receta>>
           /\ llamada' = [op |-> "producto_editar",
                          repetidos |-> repetidos_en(SelectSeq(forms, LAMBDA f : ~f.DELETE)),
                          rechazo |-> ~c.valido, nombres |-> c.nombres]
    /\ UNCHANGED <<venta, items, next_venta, next_item, puntos, insumo,
                   pc, mem, inicial, next_producto, personal>>

\* agregar_receta: the test `existe` answers with a message without a name
agregar_receta(producto_id, t) ==
    /\ producto_id \in DOMAIN producto
    /\ next_receta <= MaxRecetas
    /\ LET existe == \E r \in DOMAIN receta :
                         receta[r].producto = producto_id /\ receta[r].insumo = t.insumo
       IN  /\ IF existe
              THEN UNCHANGED <<receta, next_receta>>
              ELSE /\ receta' = guardar(receta, next_receta,
                                    [producto |-> producto_id, insumo |-> t.insumo,
                                     cantidad |-> t.cantidad, unidad |-> t.unidad])
                   /\ next_receta' = next_receta + 1
           /\ llamada' = [op |-> "agregar_receta",
                          repetidos |-> IF existe THEN {t.insumo} ELSE {},
                          rechazo |-> existe, nombres |-> {}]
    /\ UNCHANGED <<venta, items, next_venta, next_item, puntos, insumo,
                   pc, mem, inicial, producto, next_producto, personal>>

\* editar_receta: the form does not hold producto, so its validation skips
\* unique_together; the UPDATE of a second row for the ingredient fails in the
\* database with an IntegrityError the view does not catch
editar_receta(receta_id, t) ==
    /\ receta_id \in DOMAIN receta
    /\ LET producto_id == receta[receta_id].producto
           choca == forma_choca(receta, producto_id, [id |-> receta_id, insumo |-> t.insumo])
       IN  /\ IF choca
              THEN UNCHANGED receta
              ELSE receta' = guardar(receta, receta_id,
                                 [producto |-> producto_id, insumo |-> t.insumo,
                                  cantidad |-> t.cantidad, unidad |-> t.unidad])
           /\ llamada' = [op |-> "editar_receta",
                          repetidos |-> IF choca THEN {t.insumo} ELSE {},
                          rechazo |-> choca, nombres |-> {}]
    /\ UNCHANGED <<venta, items, next_venta, next_item, puntos, insumo,
                   pc, mem, inicial, producto, next_producto, next_receta, personal>>

eliminar_receta(receta_id) ==
    /\ receta_id \in DOMAIN receta
    /\ receta' = Restrict(receta, DOMAIN receta \ {receta_id})
    /\ llamada' = [op |-> "eliminar_receta",
                   repetidos |-> {}, rechazo |-> FALSE, nombres |-> {}]
    /\ UNCHANGED <<venta, items, next_venta, next_item, puntos, insumo,
                   pc, mem, inicial, producto, next_producto, next_receta, personal>>

producto_detalle(pk) ==
    /\ pk \in DOMAIN producto
    /\ llamada' = [op |-> "producto_detalle", producto |-> pk,
                   costo_total |-> producto_costo_total(pk, receta, insumo),
                   margen_ganancia |-> margen_ganancia(producto[pk], pk, receta, insumo)]
    /\ UNCHANGED <<store, pc, mem, inicial, recetario, personal>>

NextReceta ==
    \/ \E precio_venta \in PreciosForm, nuevos \in FormsNuevos(2) :
          ProductoCrear(precio_venta, nuevos)
    \/ \E p \in ProductoIds, precio_venta \in PreciosForm :
          \E cambios \in [{r \in DOMAIN receta : receta[r].producto = p} -> Opciones],
             nuevos \in FormsNuevos(1) :
             ProductoActualizar(p, precio_venta, cambios, nuevos)
    \/ \E p \in ProductoIds, t \in Renglones : agregar_receta(p, t)
    \/ \E r \in 1..MaxRecetas, t \in Renglones : editar_receta(r, t)
    \/ \E r \in 1..MaxRecetas : eliminar_receta(r)
    \/ \E p \in ProductoIds : producto_detalle(p)

SpecReceta == InitReceta /\ [][NextReceta]_vars

\* C14 as claimed: margen_ganancia() is 0 exactly when the cost is 0.
C14_CeroSiiCostoCero ==
    llamada.op = "producto_detalle"
    => (llamada.margen_ganancia = 0 <=> llamada.costo_total = 0)

\* C14, amended: margen_ganancia() is 0 whenever the cost is 0; when the cost
\* is not 0 it is 0 exactly when (price - cost) / cost * 100 rounds to 0.00,
\* as it does when the price equals the cost.
C14_MargenCero ==
    llamada.op = "producto_detalle"
    => LET precio == producto[llamada.producto].precio_venta * 100
           costo == llamada.costo_total
       IN  /\ costo = 0 => llamada.margen_ganancia = 0
           /\ costo # 0 => (llamada.margen_ganancia = 0
                            <=> 2 * 10000 * Abs(precio - costo) <= costo)

\* a product sold at 1.50 whose recipe costs 1.5000: the margin is 0
C14_Witness ==
    /\ llamada.op = "producto_detalle"
    /\ llamada.costo_total = 15000
    /\ producto[llamada.producto].precio_venta = 150
    /\ llamada.margen_ganancia = 0

OpsReceta ==
    {"producto_crear", "producto_editar", "agregar_receta", "editar_receta",
     "eliminar_receta"}

SinRepetidos(rec) ==
    \A r1, r2 \in DOMAIN rec :
        (r1 # r2 /\ rec[r1].producto = rec[r2].producto) => rec[r1].insumo # rec[r2].insumo

\* C19: no product ever has two recipe rows for one ingredient; a request
\* that would store such a pair is rejected, nothing of it is stored, and the
\* rejection names the repeated ingredient.
C19_SinDuplicados ==
    [][/\ SinRepetidos(receta')
       /\ (llamada'.op \in OpsReceta /\ llamada'.repetidos # {})
          => /\ llamada'.rechazo
             /\ UNCHANGED <<producto, receta>>
             /\ llamada'.nombres = llamada'.repetidos]_vars

(***************************************************************************)
(* Staff: shifts, attendance, hours and pay.                               *)
(* A date is a day number and day 0 is a Monday, so date.weekday() is      *)
(* fecha % 7.  A time of day is a number of whole minutes after 00:00; a   *)
(* null time or date is None.  A duration in hours is kept as its number   *)
(* of minutes: with whole-minute times the hundredths of an hour of any    *)
(* sum of durations are a multiple of 1/3, never a tie, so the float that  *)
(* carries each duration quantizes as the exact value does.  Rounded hours *)
(* are in hundredths of an hour and money is in cents.                     *)
(***************************************************************************)

\* the last day the clock reaches
MaxDia == 7

\* the keys the shifts are created under
HorarioIds == {1, 2}

\* NULL of hora_entrada, hora_salida, and of an omitted date
None == -1

\* django.contrib.auth.hashers.make_password: the salt and the salted digest
make_password(salt, raw_password) == [salt |-> salt, hash |-> <<salt, raw_password>>]

\* Empleado.password left blank
SinPassword == [salt |-> "", hash |-> <<>>]

\* django.contrib.auth.hashers.check_password
django_check_password(raw_password, encoded) ==
    encoded.hash = <<encoded.salt, raw_password>>

\* Empleado.check_password
check_password(self, raw_password) ==
    IF self.password = SinPassword THEN FALSE
    ELSE django_check_password(raw_password, self.password)

\* the week taken to start on Sunday
obtener_lunes_semana_domingo(fecha) == fecha - ((fecha + 1) % 7)

obtener_lunes_semana(fecha) ==
    LET dia_semana == fecha % 7
    IN  fecha - dia_semana

\* Horario.get_fecha_dia
get_fecha_dia(self) == self.fecha + self.dia_semana

\* _time_diff_in_hours, in minutes
time_diff_in_hours(h_inicio, h_fin) ==
    IF h_inicio = None \/ h_fin = None THEN 0
    ELSE IF h_fin <= h_inicio THEN h_fin + 1440 - h_inicio
    ELSE h_fin - h_inicio

\* Decimal.quantize(Decimal('0.01'), ROUND_HALF_UP) of minutos/60 hours
quantize_horas(minutos) == RoundHalfUp(minutos * 100, 60)

\* the sum of f over the keys S
RECURSIVE SumaDe(_, _)
SumaDe(f, S) ==
    IF S = {} THEN 0
    ELSE LET x == CHOOSE y \in S : TRUE
         IN  f[x] + SumaDe(f, S \ {x})

\* the shifts of the range, without the swap of a reversed range
calcular_horas_asignadas_sin_invertir(hor, hoy_, e, fecha_inicio, fecha_fin) ==
    LET ini == IF fecha_inicio # None THEN fecha_inicio
               ELSE IF fecha_fin # None THEN fecha_fin ELSE hoy_
        fin == IF fecha_fin # None THEN fecha_fin
               ELSE IF fecha_inicio # None THEN fecha_inicio ELSE hoy_
        horarios == {h \in DOMAIN hor :
                        /\ hor[h].empleado = e
                        /\ obtener_lunes_semana(ini) <= hor[h].fecha
                        /\ hor[h].fecha <= obtener_lunes_semana(fin)}
        incluidos == {h \in horarios :
                        ini <= get_fecha_dia(hor[h]) /\ get_fecha_dia(hor[h]) <= fin}
        horas == [h \in incluidos |->
                     time_diff_in_hours(hor[h].hora_inicio, hor[h].hora_fin)]
    IN  quantize_horas(SumaDe(horas, incluidos))

\* utils.calcular_horas_asignadas, in hundredths of an hour
calcular_horas_asignadas(hor, hoy_, e, fecha_inicio, fecha_fin) ==
    LET ini == IF fecha_inicio # None THEN fecha_inicio
               ELSE IF fecha_fin # None THEN fecha_fin ELSE hoy_
        fin == IF fecha_fin # None THEN fecha_fin
               ELSE IF fecha_inicio # None THEN fecha_inicio ELSE hoy_
        inicio == IF ini > fin THEN fin ELSE ini
        final == IF ini > fin THEN ini ELSE fin
        lunes_inicio == obtener_lunes_semana(inicio)
        lunes_fin == obtener_lunes_semana(final)
        horarios == {h \in DOMAIN hor :
                        /\ hor[h].empleado = e
                        /\ lunes_inicio <= hor[h].fecha
                        /\ hor[h].fecha <= lunes_fin}
        incluidos == {h \in horarios :
                        inicio <= get_fecha_dia(hor[h]) /\ get_fecha_dia(hor[h]) <= final}
        horas == [h \in incluidos |->
                     time_diff_in_hours(hor[h].hora_inicio, hor[h].hora_fin)]
    IN  quantize_horas(SumaDe(horas, incluidos))

\* Asistencia.calcular_horas_trabajadas, in minutes
asistencia_horas_trabajadas(self) ==
    IF self.hora_entrada # None /\ self.hora_salida # None
    THEN IF self.hora_salida <= self.hora_entrada
         THEN self.hora_salida + 1440 - self.hora_entrada
         ELSE self.hora_salida - self.hora_entrada
    ELSE 0

\* utils.calcular_horas_trabajadas, in hundredths of an hour; an attendance
\* row is kept under its key <<empleado, fecha>>
calcular_horas_trabajadas(asi, e, fecha_inicio, fecha_fin) ==
    LET asistencias == {k \in DOMAIN asi :
                           /\ k[1] = e
                           /\ fecha_inicio <= k[2] /\ k[2] <= fecha_fin
                           /\ (asi[k].hora_entrada # None \/ asi[k].hora_salida # None)}
        horas == [k \in asistencias |-> asistencia_horas_trabajadas(asi[k])]
    IN  quantize_horas(SumaDe(horas, asistencias))

\* the pay of the exact hours, rounded once
calcular_pago_final_exacto(emp, asi, e, fecha_inicio, fecha_fin) ==
    LET asistencias == {k \in DOMAIN asi :
                           /\ k[1] = e
                           /\ fecha_inicio <= k[2] /\ k[2] <= fecha_fin}
        horas == [k \in asistencias |-> asistencia_horas_trabajadas(asi[k])]
    IN  RoundHalfUp(SumaDe(horas, asistencias) * emp[e].pago_por_hora, 60)

\* utils.calcular_pago_final, in cents
calcular_pago_final(emp, asi, e, fecha_inicio, fecha_fin) ==
    LET horas_trabajadas == calcular_horas_trabajadas(asi, e, fecha_inicio, fecha_fin)
        pago_por_hora == emp[e].pago_por_hora
    IN  RoundHalfUp(horas_trabajadas * pago_por_hora, 100)

\* utils.obtener_estado_bloque_horario
obtener_estado_bloque_horario(self, asi, hoy_) ==
    LET fecha_dia == get_fecha_dia(self)
        k == <<self.empleado, fecha_dia>>
        hay == /\ k \in DOMAIN asi
               /\ (asi[k].hora_entrada # None \/ asi[k].hora_salida # None)
    IN  IF fecha_dia > hoy_ THEN "blanco"
        ELSE IF ~hay THEN "rojo"
        ELSE LET horas_trabajadas == asistencia_horas_trabajadas(asi[k])
                 horas_asignadas ==
                     IF self.hora_fin <= self.hora_inicio
                     THEN self.hora_fin + 1440 - self.hora_inicio
                     ELSE self.hora_fin - self.hora_inicio
             IN  IF horas_trabajadas * 100 >= horas_asignadas * 95 THEN "verde"
                 ELSE IF horas_trabajadas > 0 THEN "amarillo"
                 ELSE "rojo"

\* Asistencia.objects.get_or_create(empleado, fecha, defaults)
\* a lookup that never inserts
get_or_create_sin_crear(asi, e, fecha, defaults) == asi

get_or_create(asi, e, fecha, defaults) ==
    IF <<e, fecha>> \in DOMAIN asi THEN asi ELSE asi @@ (<<e, fecha>> :> defaults)

\* the staff: an active employee, and one who worked and was deactivated
Personal ==
    (1 :> [correo |-> "ana@cafe.mx", activo |-> TRUE,
           password |-> make_password("s1", "ana123"), pago_por_hora |-> 1000])
    @@ (2 :> [correo |-> "luis@cafe.mx", activo |-> FALSE,
              password |-> make_password("s2", "luis123"), pago_por_hora |-> 1250])

\* hora_inicio and hora_fin of the form: 09:00-17:00 and 22:00-02:20
Turnos == {[hora_inicio |-> 540, hora_fin |-> 1020],
           [hora_inicio |-> 1320, hora_fin |-> 140]}

\* dia_semana of the form: Monday, Tuesday and Sunday of DIAS_SEMANA
DiasForm == {0, 1, 6}

\* fecha_inicio and fecha_fin of a report
Fechas == {None, 6, 8}

\* no product, ingredient or recipe
SinCocina ==
    /\ insumo = Vacia
    /\ producto = Vacia
    /\ receta = Vacia
    /\ next_producto = 1
    /\ next_receta = 1

(***************************************************************************)
(* SpecHorarios: the shift views, day after day, from the Saturday of the  *)
(* first week.                                                             *)
(***************************************************************************)
InitHorarios ==
    /\ SinVentas
    /\ SinCocina
    /\ hoy = 5
    /\ hora = 540
    /\ empleado = Personal
    /\ horario = Vacia
    /\ next_horario = 1
    /\ asistencia = Vacia
    /\ llamada = SinLlamada

\* the place of midnight among the three readings of the clock in
\* agregar_horario: nowhere, before the second, or before the third
Medianoches == {0, 1, 2}

\* views.agregar_horario, POST of a valid form.  The view reads the clock for
\* the Monday of the week, again for the test of the past, and again for the
\* placeholder; m places midnight among the readings, up to the day ultimo
agregar_horario(empleado_id, dia_semana, t, m, ultimo) ==
    /\ next_horario \in HorarioIds
    /\ m = 0 \/ hoy < ultimo
    /\ LET hoy_pasado == IF m = 1 THEN hoy + 1 ELSE hoy
           hoy_asistencia == IF m = 0 THEN hoy ELSE hoy + 1
           lunes == obtener_lunes_semana(hoy)
           fecha_dia_horario == lunes + dia_semana
           existe_horario == \E h \in DOMAIN horario :
                                /\ horario[h].empleado = empleado_id
                                /\ horario[h].fecha = lunes
                                /\ horario[h].dia_semana = dia_semana
           nuevo == [empleado |-> empleado_id, fecha |-> lunes,
                     dia_semana |-> dia_semana,
                     hora_inicio |-> t.hora_inicio, hora_fin |-> t.hora_fin]
           fecha_dia == get_fecha_dia(nuevo)
       IN  IF fecha_dia_horario <= hoy_pasado
           THEN /\ llamada' = [op |-> "agregar_horario",
                               mensaje |-> "No puedes agregar horarios para fechas pasadas"]
                /\ hoy' = hoy_pasado
                /\ UNCHANGED <<horario, next_horario, asistencia>>
           ELSE IF existe_horario
           THEN /\ llamada' = [op |-> "agregar_horario",
                               mensaje |-> "Este empleado ya tiene un horario asignado para ese dia."]
                /\ hoy' = hoy_pasado
                /\ UNCHANGED <<horario, next_horario, asistencia>>
           ELSE /\ horario' = guardar(horario, next_horario, nuevo)
                /\ next_horario' = next_horario + 1
                /\ asistencia' =
                       IF fecha_dia <= hoy_asistencia
                       THEN get_or_create(asistencia, empleado_id, fecha_dia,
                                [hora_entrada |-> None, hora_salida |-> None])
                       ELSE asistencia
                /\ hoy' = hoy_asistencia
                /\ llamada' = [op |-> "agregar_horario",
                               mensaje |-> "Horario creado exitosamente"]
    /\ hora' = IF hoy' # hoy THEN 0 ELSE hora
    /\ UNCHANGED <<store, pc, mem, inicial, recetario, empleado>>

\* views.editar_horario, POST of a valid form
editar_horario(pk, empleado_id, dia_semana, t) ==
    /\ pk \in DOMAIN horario
    /\ LET self == horario[pk]
           fecha_dia == get_fecha_dia(self)
           existe_conflicto == \E h \in DOMAIN horario \ {pk} :
                                  /\ horario[h].empleado = empleado_id
                                  /\ horario[h].fecha = self.fecha
                                  /\ horario[h].dia_semana = dia_semana
       IN  IF fecha_dia <= hoy
           THEN /\ llamada' = [op |-> "editar_horario",
                               mensaje |-> "No puedes editar horarios pasados"]
                /\ UNCHANGED horario
           ELSE IF existe_conflicto
           THEN /\ llamada' = [op |-> "editar_horario",
                               mensaje |-> "Error: Este empleado ya tiene otro horario asignado para ese dia."]
                /\ UNCHANGED horario
           ELSE /\ horario' = guardar(horario, pk,
                                  [self EXCEPT !.empleado = empleado_id,
                                               !.dia_semana = dia_semana,
                                               !.hora_inicio = t.hora_inicio,
                                               !.hora_fin = t.hora_fin])
                /\ llamada' = [op |-> "editar_horario",
                               mensaje |-> "Horario actualizado exitosamente"]
    /\ UNCHANGED <<store, pc, mem, inicial, recetario, hoy, hora, empleado,
                   next_horario, asistencia>>

\* views.eliminar_horario, POST
eliminar_horario(pk) ==
    /\ pk \in DOMAIN horario
    /\ LET fecha_dia == get_fecha_dia(horario[pk])
       IN  IF fecha_dia <= hoy
           THEN /\ llamada' = [op |-> "eliminar_horario",
                               mensaje |-> "No puedes eliminar horarios pasados"]
                /\ UNCHANGED horario
           ELSE /\ horario' = Restrict(horario, DOMAIN horario \ {pk})
                /\ llamada' = [op |-> "eliminar_horario",
                               mensaje |-> "Horario eliminado exitosamente"]
    /\ UNCHANGED <<store, pc, mem, inicial, recetario, hoy, hora, empleado,
                   next_horario, asistencia>>

\* calcular_horas_asignadas of an employee and a range, as the employee list
\* shows it
HorasAsignadas(e, fecha_inicio, fecha_fin) ==
    /\ llamada' = [op |-> "calcular_horas_asignadas", empleado |-> e,
                   fecha_inicio |-> fecha_inicio, fecha_fin |-> fecha_fin,
                   horas |-> calcular_horas_asignadas(horario, hoy, e,
                                                      fecha_inicio, fecha_fin)]
    /\ UNCHANGED <<store, pc, mem, inicial, recetario, personal>>

\* midnight: datetime.now().date() is the next day, up to the day ultimo
Medianoche(ultimo) ==
    /\ hoy < ultimo
    /\ hoy' = hoy + 1
    /\ hora' = 540
    /\ UNCHANGED <<store, llamada, pc, mem, inicial, recetario, empleado,
                   horario, next_horario, asistencia>>

NextHorarios ==
    \/ \E e \in DOMAIN Personal, d \in DiasForm, t \in Turnos, m \in Medianoches :
          agregar_horario(e, d, t, m, MaxDia)
    \/ \E pk \in HorarioIds, e \in DOMAIN Personal, d \in DiasForm, t \in Turnos :
          editar_horario(pk, e, d, t)
    \/ \E pk \in HorarioIds : eliminar_horario(pk)
    \/ \E e \in DOMAIN Personal, fecha_inicio \in Fechas, fecha_fin \in Fechas :
          HorasAsignadas(e, fecha_inicio, fecha_fin)
    \/ Medianoche(MaxDia)

SpecHorarios == InitHorarios /\ [][NextHorarios]_vars

(***************************************************************************)
(* SpecAsistencias: the clock-in/out form, the state of a shift block and  *)
(* the pay, from the Saturday of a week whose shifts are set.  Two         *)
(* requests can read the same time of day.                                 *)
(***************************************************************************)

\* the last day of the attendance clock
MaxJornada == 6

\* the times of day the clock shows: 09:00, 09:20 and 16:56
Horas == {540, 560, 1016}

\* correo and contraseña of the form
Intentos == {[correo |-> "ana@cafe.mx", contrasena |-> "ana123"],
             [correo |-> "ana@cafe.mx", contrasena |-> "luis123"],
             [correo |-> "luis@cafe.mx", contrasena |-> "luis123"],
             [correo |-> "nadie@cafe.mx", contrasena |-> "ana123"]}

\* tipo of the form
TIPO == {"entrada", "salida"}

\* fecha_inicio and fecha_fin of a pay report
Rangos == {<<4, 6>>, <<5, 5>>, <<5, 6>>, <<6, 5>>}

\* the shifts of the week: Saturday and Sunday for the active employee,
\* Friday for the one deactivated since
HorariosSemana ==
    (1 :> [empleado |-> 1, fecha |-> 0, dia_semana |-> 5,
           hora_inicio |-> 540, hora_fin |-> 1020])
    @@ (2 :> [empleado |-> 1, fecha |-> 0, dia_semana |-> 6,
              hora_inicio |-> 1320, hora_fin |-> 140])
    @@ (3 :> [empleado |-> 2, fecha |-> 0, dia_semana |-> 4,
              hora_inicio |-> 540, hora_fin |-> 1020])

InitAsistencias ==
    /\ SinVentas
    /\ SinCocina
    /\ hoy = 5
    /\ hora = 540
    /\ empleado = Personal
    /\ horario = HorariosSemana
    /\ next_horario = 4
    /\ asistencia = (<<2, 4>> :> [hora_entrada |-> 540, hora_salida |-> 1016])
    /\ llamada = SinLlamada

\* a view that stamps the record of today whatever it already holds
registrar_asistencia_reescribe(emp, asi, fecha_hoy, hora_actual, correo, contrasena, tipo) ==
    LET activos == {e \in DOMAIN emp : emp[e].correo = correo /\ emp[e].activo}
    IN  IF activos = {}
        THEN [asistencia |-> asi, mensaje |-> "Empleado no encontrado o no activo."]
        ELSE
        LET e == CHOOSE x \in activos : TRUE
            k == <<e, fecha_hoy>>
            a == IF k \in DOMAIN asi THEN asi[k]
                 ELSE [hora_entrada |-> None, hora_salida |-> None]
        IN  IF ~check_password(emp[e], contrasena)
            THEN [asistencia |-> asi, mensaje |-> "Correo o contrasena incorrectos."]
            ELSE IF tipo = "entrada"
            THEN [asistencia |-> (k :> [a EXCEPT !.hora_entrada = hora_actual]) @@ asi,
                  mensaje |-> "Entrada registrada."]
            ELSE [asistencia |-> (k :> [a EXCEPT !.hora_salida = hora_actual]) @@ asi,
                  mensaje |-> "Salida registrada."]

\* views.registrar_asistencia on a valid form: the table and the message
registrar_asistencia(emp, asi, fecha_hoy, hora_actual, correo, contrasena, tipo) ==
    LET activos == {e \in DOMAIN emp : emp[e].correo = correo /\ emp[e].activo}
    IN  IF activos = {}
        THEN [asistencia |-> asi, mensaje |-> "Empleado no encontrado o no activo."]
        ELSE
        LET e == CHOOSE x \in activos : TRUE
            k == <<e, fecha_hoy>>
        IN  IF ~check_password(emp[e], contrasena)
            THEN [asistencia |-> asi, mensaje |-> "Correo o contrasena incorrectos."]
            ELSE IF tipo = "entrada"
            THEN IF k \notin DOMAIN asi
                 THEN [asistencia |-> get_or_create(asi, e, fecha_hoy,
                                        [hora_entrada |-> hora_actual, hora_salida |-> None]),
                       mensaje |-> "Entrada registrada."]
                 ELSE IF asi[k].hora_entrada = None
                 THEN [asistencia |-> [asi EXCEPT ![k].hora_entrada = hora_actual],
                       mensaje |-> "Entrada registrada."]
                 ELSE [asistencia |-> asi,
                       mensaje |-> "Ya existe una entrada registrada para hoy."]
            ELSE IF k \notin DOMAIN asi
                 THEN [asistencia |-> asi,
                       mensaje |-> "No hay registro de entrada para hoy. No se puede registrar salida."]
                 ELSE IF asi[k].hora_salida # None
                 THEN [asistencia |-> asi,
                       mensaje |-> "La salida ya fue registrada para hoy."]
                 ELSE IF asi[k].hora_entrada = None
                 THEN [asistencia |-> asi,
                       mensaje |-> "No existe hora de entrada; no se puede registrar salida."]
                 ELSE [asistencia |-> [asi EXCEPT ![k].hora_salida = hora_actual],
                       mensaje |-> "Salida registrada."]

\* POST of the clock-in/out form
RegistrarAsistencia(i, tipo) ==
    LET r == registrar_asistencia(empleado, asistencia, hoy, hora,
                                  i.correo, i.contrasena, tipo)
    IN  /\ asistencia' = r.asistencia
        /\ llamada' = [op |-> "registrar_asistencia", correo |-> i.correo,
                       contrasena |-> i.contrasena, tipo |-> tipo,
                       mensaje |-> r.mensaje]
        /\ UNCHANGED <<store, pc, mem, inicial, recetario, hoy, hora, empleado,
                       horario, next_horario>>

\* the state of the block of shift h in the week view
EstadoBloque(h) ==
    /\ h \in DOMAIN horario
    /\ llamada' = [op |-> "obtener_estado_bloque_horario", horario |-> h,
                   estado |-> obtener_estado_bloque_horario(horario[h], asistencia, hoy)]
    /\ UNCHANGED <<store, pc, mem, inicial, recetario, personal>>

\* calcular_pago_final of an employee and a range, as the employee list
\* shows it
PagoFinal(e, fecha_inicio, fecha_fin) ==
    /\ llamada' = [op |-> "calcular_pago_final", empleado |-> e,
                   fecha_inicio |-> fecha_inicio, fecha_fin |-> fecha_fin,
                   pago |-> calcular_pago_final(empleado, asistencia, e,
                                                fecha_inicio, fecha_fin)]
    /\ UNCHANGED <<store, pc, mem, inicial, recetario, personal>>

\* the time of day passes
Reloj(h) ==
    /\ h > hora
    /\ hora' = h
    /\ UNCHANGED <<store, llamada, pc, mem, inicial, recetario, hoy, empleado,
                   horario, next_horario, asistencia>>

NextAsistencias ==
    \/ \E i \in Intentos, tipo \in TIPO : RegistrarAsistencia(i, tipo)
    \/ \E h \in DOMAIN HorariosSemana : EstadoBloque(h)
    \/ \E e \in DOMAIN Personal, r \in Rangos : PagoFinal(e, r[1], r[2])
    \/ \E h \in Horas : Reloj(h)
    \/ Medianoche(MaxJornada)

SpecAsistencias == InitAsistencias /\ [][NextAsistencias]_vars

(***************************************************************************)
(* Claims on shifts, hours, pay and the clock-in/out form.                 *)
(***************************************************************************)

\* the scheduled minutes of a shift, a shift that ends at or before its
\* start running into the next day
Duracion(self) ==
    IF self.hora_fin <= self.hora_inicio
    THEN self.hora_fin + 1440 - self.hora_inicio
    ELSE self.hora_fin - self.hora_inicio

\* the worked minutes of an attendance row
Trabajado(a) ==
    IF a.hora_entrada = None \/ a.hora_salida = None THEN 0
    ELSE IF a.hora_salida <= a.hora_entrada
    THEN a.hora_salida + 1440 - a.hora_entrada
    ELSE a.hora_salida - a.hora_entrada

\* the call this step makes, if it makes one
Llama(o) == llamada' # llamada /\ llamada'.op = o

\* C15: for every shift and every attendance of its date, the state is
\* future iff the date is after today; otherwise absent iff the employee has
\* no attendance row of that date with a clock-in or a clock-out; otherwise
\* complete iff the worked time is at least 95% of the scheduled time, and
\* partial iff it is above 0 and below 95% of it.
C15_CuatroEstados ==
    [][Llama("obtener_estado_bloque_horario") =>
        LET self == horario[llamada'.horario]
            fecha_dia == self.fecha + self.dia_semana
            k == <<self.empleado, fecha_dia>>
            registro == /\ k \in DOMAIN asistencia
                        /\ (asistencia[k].hora_entrada # None
                            \/ asistencia[k].hora_salida # None)
            trabajado == IF registro THEN Trabajado(asistencia[k]) ELSE 0
            estado == llamada'.estado
        IN  /\ estado \in {"blanco", "rojo", "verde", "amarillo"}
            /\ (estado = "blanco") <=> (fecha_dia > hoy)
            /\ (fecha_dia <= hoy) => ((estado = "rojo") <=> ~registro)
            /\ (fecha_dia <= hoy /\ registro) =>
                  /\ (estado = "verde") <=> (trabajado * 100 >= 95 * Duracion(self))
                  /\ (estado = "amarillo") <=>
                        (0 < trabajado /\ trabajado * 100 < 95 * Duracion(self))
    ]_vars

\* the shifts of employee e dated from the earlier to the later of d1 and d2
EnRango(e, d1, d2) ==
    {h \in DOMAIN horario :
        /\ horario[h].empleado = e
        /\ Min(d1, d2) <= horario[h].fecha + horario[h].dia_semana
        /\ horario[h].fecha + horario[h].dia_semana <= Max(d1, d2)}

\* the scheduled minutes of the call made: one given date is a range of one
\* day, and no date is today
MinutosAsignados ==
    LET d1 == llamada'.fecha_inicio
        d2 == llamada'.fecha_fin
        a == IF d1 # None THEN d1 ELSE IF d2 # None THEN d2 ELSE hoy
        b == IF d2 # None THEN d2 ELSE IF d1 # None THEN d1 ELSE hoy
        S == EnRango(llamada'.empleado, a, b)
    IN  SumaDe([h \in S |-> Duracion(horario[h])], S)

\* C16 (as stated): calcular_horas_asignadas(e, d1, d2) equals the sum of
\* the durations of the shifts of e whose real date lies between min(d1, d2)
\* and max(d1, d2).
C16_SumaDeDuraciones ==
    [][Llama("calcular_horas_asignadas") =>
        llamada'.horas * 60 = MinutosAsignados * 100]_vars

\* C16 (amended): calcular_horas_asignadas(e, d1, d2) is that sum of
\* durations, in hours, rounded half-up to 2 decimals: no shift of the range
\* is dropped, a reversed range is the ordered one, one given date is a
\* range of one day, and end <= start counts as end + 24h - start.
C16_SumaRedondeada ==
    [][Llama("calcular_horas_asignadas") =>
        /\ 2 * Abs(llamada'.horas * 60 - MinutosAsignados * 100) <= 60
        /\ 2 * (llamada'.horas * 60 - MinutosAsignados * 100) # -60
        /\ llamada'.horas =
              calcular_horas_asignadas(horario, hoy, llamada'.empleado,
                                       llamada'.fecha_fin, llamada'.fecha_inicio)
    ]_vars

\* a reversed range over two weeks whose two midnight-crossing shifts add up
\* to 8.67 hours
C16_Witness ==
    /\ llamada.op = "calcular_horas_asignadas"
    /\ llamada.fecha_inicio = 8 /\ llamada.fecha_fin = 6
    /\ llamada.horas = 867
    /\ \E h \in DOMAIN horario :
          horario[h].fecha = 0 /\ horario[h].hora_fin <= horario[h].hora_inicio

\* the worked minutes of the call made: the attendance rows of the employee
\* dated in the range
MinutosTrabajados ==
    LET S == {k \in DOMAIN asistencia :
                 /\ k[1] = llamada'.empleado
                 /\ llamada'.fecha_inicio <= k[2]
                 /\ k[2] <= llamada'.fecha_fin}
    IN  SumaDe([k \in S |-> Trabajado(asistencia[k])], S)

\* C17 (as stated): calcular_pago_final equals the worked hours times the
\* hourly rate, the worked hours being the sum over the attendance rows of
\* the range of clock-out minus clock-in.
C17_HorasPorTarifa ==
    [][Llama("calcular_pago_final") =>
        llamada'.pago * 60 =
            MinutosTrabajados * empleado[llamada'.empleado].pago_por_hora]_vars

\* C17 (amended): calcular_pago_final is the worked hours, rounded half-up
\* to 2 decimals, times the hourly rate, rounded half-up to 2 decimals.
C17_PagoRedondeado ==
    [][Llama("calcular_pago_final") =>
        LET horas == (2 * MinutosTrabajados * 100 + 60) \div 120
        IN  llamada'.pago =
               (2 * horas * empleado[llamada'.empleado].pago_por_hora + 100) \div 200
    ]_vars

\* the pay of a range with a row of 24 hours (clock-out = clock-in) and a
\* row without clock-out
C17_Witness ==
    /\ llamada.op = "calcular_pago_final"
    /\ llamada.empleado = 1
    /\ llamada.fecha_inicio = 4 /\ llamada.fecha_fin = 6
    /\ llamada.pago = calcular_pago_final(empleado, asistencia, 1, 4, 6)
    /\ llamada.pago > 0
    /\ \E k \in DOMAIN asistencia :
          /\ k[1] = 1
          /\ asistencia[k].hora_salida = asistencia[k].hora_entrada
    /\ \E k \in DOMAIN asistencia :
          /\ k[1] = 1
          /\ asistencia[k].hora_salida = None
          /\ asistencia[k].hora_entrada # None
    /\ <<2, 4>> \in DOMAIN asistencia

\* C18: every stored shift is anchored on a Monday and has a day offset in
\* 0..6, so its real date lies in the week that starts at its anchor.
C18_AnclaEnLunes ==
    \A h \in DOMAIN horario :
        /\ horario[h].fecha % 7 = 0
        /\ horario[h].dia_semana \in 0..6
        /\ horario[h].fecha <= get_fecha_dia(horario[h])
        /\ get_fecha_dia(horario[h]) <= horario[h].fecha + 6

\* a shift of the second week moved to another day by an edit
C18_Witness ==
    /\ llamada.op = "editar_horario"
    /\ llamada.mensaje = "Horario actualizado exitosamente"
    /\ \E h \in DOMAIN horario : horario[h].fecha = 7 /\ horario[h].dia_semana = 6
    /\ \E h \in DOMAIN horario : horario[h].fecha = 0

\* an attempt that is not the e-mail of an active employee with the
\* password of that employee
Rechazado(correo, contrasena) ==
    ~\E e \in DOMAIN empleado :
        /\ empleado[e].correo = correo
        /\ empleado[e].activo
        /\ check_password(empleado[e], contrasena)

\* C20: a failing attempt gets the response every other failing attempt
\* would get, whether the e-mail is unknown, the employee inactive or the
\* password wrong.
C20_MismaRespuesta ==
    [][(Llama("registrar_asistencia")
        /\ Rechazado(llamada'.correo, llamada'.contrasena)) =>
        \A i \in Intentos :
            Rechazado(i.correo, i.contrasena) =>
                registrar_asistencia(empleado, asistencia, hoy, hora, i.correo,
                                     i.contrasena, llamada'.tipo).mensaje
                = llamada'.mensaje
    ]_vars


(***************************************************************************)
(* Claims about cancelling, the order of finalizar() and the stock         *)
(* deduction, under Spec.                                                   *)
(***************************************************************************)
\* C21: cancelar() on a pending sale returns True, removes the sale and all
\* of its lines, and changes no ingredient quantity and no customer balance
\* (nor any line of another sale).
C21_CancelarPendiente ==
    [][\A v \in VentaIds :
          (EsLlamada("cancelar", v) /\ v \in DOMAIN venta /\ venta[v].estado = "pendiente")
          => /\ llamada'.ret = TRUE
             /\ v \notin DOMAIN venta'
             /\ LineasDe(items', v) = {}
             /\ \A i \in DOMAIN items : items[i].venta # v
                    => i \in DOMAIN items' /\ items'[i] = items[i]
             /\ insumo' = insumo
             /\ puntos' = puntos]_vars

\* a pending sale with lines and a customer holding points has been cancelled
C21_Witness ==
    /\ llamada.op = "cancelar" /\ llamada.ret = TRUE
    /\ llamada.id \notin DOMAIN venta
    /\ next_item > 1
    /\ DOMAIN items = {}
    /\ \E c \in DOMAIN puntos : puntos[c] = 200
    /\ insumo = Catalogo.insumo

\* C23: a successful finalizar() recomputes the totals from the current
\* lines, redeems r = min(b, floor(T)) of the balance b from the recomputed
\* total T, deducts the inventory, leaves the balance
\* max(0, b - r) + floor(max(0, T - r) / 10) and ends with the sale finalized.
C23_OrdenDeFinalizar ==
    [][\A v \in VentaIds :
          (EsLlamada("finalizar", v) /\ llamada'.ret = TRUE)
          => LET c == venta[v].cliente
                 T == PrecioLineas(items, LineasDe(items, v))
                 b == puntos[c]
                 r == Min(b, T \div 100)
             IN  /\ venta'[v].precio_total_cache = T
                 /\ venta'[v].estado = "finalizada"
                 /\ insumo' = descontar_inventario(v, items, receta, insumo)
                 /\ c # 0 => /\ venta'[v].puntos_usados = r
                             /\ puntos'[c] = Max(0, b - r) + (Max(0, T - 100 * r) \div 1000)]_vars

\* a balance of 200 and lines worth 145.50 whose cached total was still 0:
\* 145 points redeemed, 55 left, nothing awarded on the remaining 0.50
C23_Witness ==
    \E v \in DOMAIN venta :
        /\ llamada = [op |-> "finalizar", id |-> v, ret |-> TRUE]
        /\ venta[v].cliente # 0
        /\ venta[v].precio_total_cache = 14550
        /\ venta[v].puntos_usados = 145
        /\ puntos[venta[v].cliente] = 55
        /\ insumo # Catalogo.insumo

RECURSIVE Descontado(_, _, _, _, _)
\* the row of ingredient i after the lines ids (taken in id order) have each
\* deducted, for their recipe row on i, the converted recipe quantity times
\* the line count, rounding half-up to 2 decimals after every deduction
Descontado(ins, i, ids, its, rec) ==
    IF ids = {} THEN ins
    ELSE LET n == CHOOSE x \in ids : \A y \in ids : x <= y
             it == its[n]
             rows == {r \in DOMAIN rec : rec[r].producto = it.producto /\ rec[r].insumo = i}
             pr == rec[CHOOSE r \in rows : TRUE]
             e == cantidad_equivalente_insumo(pr, ins)
             q == RoundHalfUp(ins.cantidad * e.den - 100 * e.num * it.cantidad, e.den)
         IN  Descontado(IF it.producto = 0 \/ rows = {} THEN ins
                        ELSE [ins EXCEPT !.cantidad = q],
                        i, ids \ {n}, its, rec)

\* C24: finalizar() of a pending sale is never rejected for lack of stock;
\* every line with a product deducts, for every recipe row, the converted
\* recipe quantity times the line count, rounded half-up to 2 decimals, each
\* deduction starting from the quantity the previous one left, with no floor
\* at 0; a line without a product deducts nothing.
C24_DescuentoDeInventario ==
    [][\A v \in VentaIds :
          (EsLlamada("finalizar", v) /\ v \in DOMAIN venta /\ venta[v].estado = "pendiente")
          => /\ llamada'.ret = TRUE
             /\ \A i \in DOMAIN insumo :
                    insumo'[i] = Descontado(insumo[i], i, LineasDe(items, v), items, receta)]_vars

\* two lines of one sale used the ingredients of product 2: 0.50 l on hand,
\* 0.50 l deducted twice, and twice 0.02 kg of the 10.00 kg
C24_Witness ==
    \E v \in DOMAIN venta :
        /\ llamada = [op |-> "finalizar", id |-> v, ret |-> TRUE]
        /\ Cardinality(LineasDe(items, v)) = 2
        /\ \A i \in LineasDe(items, v) : items[i].producto = 2
        /\ insumo[2].cantidad = -50
        /\ insumo[1].cantidad = 996

\* C29: every finalized sale has 0 <= puntos_usados <= floor(total price),
\* so its final price is at most its total price.
C29_CanjeAcotado ==
    \A v \in DOMAIN venta :
        venta[v].estado = "finalizada"
        => /\ 0 <= venta[v].puntos_usados
           /\ venta[v].puntos_usados <= venta[v].precio_total_cache \div 100
           /\ precio_final(venta[v]) <= venta[v].precio_total_cache


(***************************************************************************)
(* SpecStock: the low-stock test of Insumo on rows whose quantity and      *)
(* minimum come from the ingredient form and whose quantity is lowered by  *)
(* sales.  Here a row is [cantidad, cantidad_min, unidad,                  *)
(* costo_por_unidad], both quantities in hundredths.                       *)
(***************************************************************************)
\* a test that leaves the equal case out
esta_bajo_stock_estricto(self) == self.cantidad < self.cantidad_min

esta_bajo_stock(self) == self.cantidad <= self.cantidad_min

\* InsumoListView with bajo_stock set: filter(cantidad__lte=F('cantidad_min'))
filtro_bajo_stock(insu) == {i \in DOMAIN insu : insu[i].cantidad <= insu[i].cantidad_min}

InsumoIds == {1, 2}

\* InsumoForm: what is typed into cantidad and cantidad_min, in hundredths
CantidadesStock == {-100, 0, 200, 500, 501}

MinimosStock == {-100, 0, 500}

\* MinValueValidator(0) on Insumo.cantidad and Insumo.cantidad_min
stock_valido(cantidad, cantidad_min) == cantidad >= 0 /\ cantidad_min >= 0

\* the recipe row of the sale line that lowers the stock: 3 kg a unit
RecetaStock == [producto |-> 1, insumo |-> 1, cantidad |-> 3000, unidad |-> "kg"]

InitStock ==
    /\ SinVentas
    /\ SinPersonal
    /\ insumo = [i \in InsumoIds |-> [cantidad |-> 200, cantidad_min |-> 500,
                                     unidad |-> "kg", costo_por_unidad |-> 4000]]
    /\ receta = Vacia
    /\ producto = Vacia
    /\ next_producto = 1
    /\ next_receta = 1
    /\ llamada = SinLlamada

\* InsumoUpdateView: the form is saved when it validates
InsumoGuardar(i, cantidad, cantidad_min) ==
    /\ i \in DOMAIN insumo
    /\ IF stock_valido(cantidad, cantidad_min)
       THEN insumo' = [insumo EXCEPT ![i].cantidad = cantidad,
                                     ![i].cantidad_min = cantidad_min]
       ELSE UNCHANGED insumo
    /\ llamada' = [op |-> "insumo_guardar", insumo |-> i,
                   valido |-> stock_valido(cantidad, cantidad_min)]
    /\ UNCHANGED <<venta, items, next_venta, next_item, puntos, receta,
                   pc, mem, inicial, recetario, personal>>

\* the loop body of descontar_insumos for one unit sold, on ingredient i
InsumoDescontar(i) ==
    /\ i \in DOMAIN insumo
    /\ insumo[i].cantidad >= 0
    /\ insumo' = [insumo EXCEPT ![i].cantidad = descontar_uno(insumo[i], RecetaStock, 1)]
    /\ llamada' = [op |-> "descontar_insumos", insumo |-> i]
    /\ UNCHANGED <<venta, items, next_venta, next_item, puntos, receta,
                   pc, mem, inicial, recetario, personal>>

\* insumo.esta_bajo_stock() on a stored row
EstaBajoStock(i) ==
    /\ i \in DOMAIN insumo
    /\ llamada' = [op |-> "esta_bajo_stock", insumo |-> i,
                   bajo |-> esta_bajo_stock(insumo[i])]
    /\ UNCHANGED <<store, pc, mem, inicial, recetario, personal>>

\* the ingredient list filtered by low stock
InsumoListBajo ==
    /\ llamada' = [op |-> "insumo_list", bajo_stock |-> filtro_bajo_stock(insumo)]
    /\ UNCHANGED <<store, pc, mem, inicial, recetario, personal>>

NextStock ==
    \/ \E i \in InsumoIds, cantidad \in CantidadesStock, cantidad_min \in MinimosStock :
          InsumoGuardar(i, cantidad, cantidad_min)
    \/ \E i \in InsumoIds : InsumoDescontar(i)
    \/ \E i \in InsumoIds : EstaBajoStock(i)
    \/ InsumoListBajo

SpecStock == InitStock /\ [][NextStock]_vars

CatalogoFino ==
    [Catalogo EXCEPT !.insumo[1].costo_por_unidad = 40,
                     !.receta[1].cantidad = 10000]

InitTotales ==
    /\ venta = Vacia
    /\ items = Vacia
    /\ next_venta = 1
    /\ next_item = 1
    /\ puntos = Vacia
    /\ insumo = CatalogoFino.insumo
    /\ receta = CatalogoFino.receta
    /\ llamada = [op |-> "", id |-> 0, ret |-> FALSE]
    /\ pc = [r \in Requests |-> "idle"]
    /\ mem = [r \in Requests |-> SinMem]
    /\ inicial = <<>>
    /\ RecetarioFijo
    /\ SinPersonal

SpecTotales == InitTotales /\ [][Next]_vars

RECURSIVE CostoLineas(_, _, _, _)
\* the sum over a set of lines of product cost * quantity, unrounded, in
\* ten-thousandths; a line without a product adds 0
CostoLineas(its, S, rec, insu) ==
    IF S = {} THEN 0
    ELSE LET i == CHOOSE x \in S : TRUE
             prs == IF its[i].producto # 0 THEN receta_items(rec, its[i].producto) ELSE <<>>
             costo == SumSeq([n \in 1..Len(prs) |->
                                 receta_costo_total(prs[n], insu[prs[n].insumo])])
         IN  costo * its[i].cantidad + CostoLineas(its, S \ {i}, rec, insu)

\* C25: the totals finalizar() stores are the sum of price * quantity and the
\* sum of product cost * quantity over the current lines, each sum rounded
\* half-up to 2 decimals once, at the level of the sale, and not line by line.
C25_TotalesRedondeadosUnaVez ==
    [][\A v \in VentaIds :
          (EsLlamada("finalizar", v) /\ llamada'.ret = TRUE)
          => LET S == LineasDe(items, v)
             IN  /\ venta'[v].precio_total_cache = PrecioLineas(items, S)
                 /\ venta'[v].costo_total_cache =
                        RoundHalfUp(CostoLineas(items, S, receta, insumo), 100)]_vars


(***************************************************************************)
(* SpecRegistro: shift creation and the clock-in/out form together, over   *)
(* two days, with no shift and no attendance record at the start.          *)
(***************************************************************************)
\* the eve of the last day of the exploration
InitRegistro ==
    /\ SinVentas
    /\ SinCocina
    /\ hoy = MaxJornada - 1
    /\ hora = 540
    /\ empleado = Personal
    /\ horario = Vacia
    /\ next_horario = 1
    /\ asistencia = Vacia
    /\ llamada = SinLlamada

NextRegistro ==
    \/ \E e \in DOMAIN Personal, d \in DiasForm, t \in Turnos, m \in Medianoches :
          agregar_horario(e, d, t, m, MaxJornada)
    \/ \E i \in Intentos, tipo \in TIPO : RegistrarAsistencia(i, tipo)
    \/ \E h \in Horas : Reloj(h)
    \/ Medianoche(MaxJornada)

SpecRegistro == InitRegistro /\ [][NextRegistro]_vars

\* the step is a clock-in/out request that answered or wrote something
Registra(tipo) ==
    /\ llamada'.op = "registrar_asistencia"
    /\ llamada' # llamada \/ asistencia' # asistencia
    /\ llamada'.tipo = tipo

\* the employee the form's credentials belong to, 0 when they are refused
Autenticado(correo, contrasena) ==
    LET es == {e \in DOMAIN empleado :
                  /\ empleado[e].correo = correo
                  /\ empleado[e].activo
                  /\ check_password(empleado[e], contrasena)}
    IN  IF es = {} THEN 0 ELSE CHOOSE e \in es : TRUE

SinMarcas == [hora_entrada |-> None, hora_salida |-> None]

\* C26: an attendance record appears only by an accepted clock-in (for today,
\* holding the clock-in) or by the creation of a shift whose date is today or
\* earlier (for that employee and date, with no clock-in and no clock-out);
\* such a creation leaves the record in place when there is one; a clock-out
\* adds no record and changes only the clock-out of today's record.
C26_OrigenDeAsistencias ==
    [][/\ \A k \in DOMAIN asistencia' \ DOMAIN asistencia :
             \/ /\ Registra("entrada")
                /\ llamada'.mensaje = "Entrada registrada."
                /\ k = <<Autenticado(llamada'.correo, llamada'.contrasena), hoy>>
                /\ asistencia'[k] = [hora_entrada |-> hora, hora_salida |-> None]
             \/ /\ llamada'.op = "agregar_horario"
                /\ next_horario \in DOMAIN horario' \ DOMAIN horario
                /\ k = <<horario'[next_horario].empleado,
                         get_fecha_dia(horario'[next_horario])>>
                /\ k[2] <= hoy'
                /\ asistencia'[k] = SinMarcas
       /\ \A h \in DOMAIN horario' \ DOMAIN horario :
             get_fecha_dia(horario'[h]) <= hoy'
             => LET k == <<horario'[h].empleado, get_fecha_dia(horario'[h])>>
                IN  /\ k \in DOMAIN asistencia'
                    /\ k \in DOMAIN asistencia => asistencia'[k] = asistencia[k]
       /\ Registra("salida")
             => /\ DOMAIN asistencia' = DOMAIN asistencia
                /\ \A k \in DOMAIN asistencia :
                       asistencia'[k] # asistencia[k]
                       => /\ k = <<Autenticado(llamada'.correo, llamada'.contrasena), hoy>>
                          /\ asistencia'[k] = [asistencia[k] EXCEPT !.hora_salida = hora]]_vars

\* midnight passed while a shift for the Sunday was being created: the shift
\* is of today and its employee has an empty record for today, next to the
\* record a clock-in created and a clock-out completed the day before
C26_Witness ==
    /\ llamada = [op |-> "agregar_horario", mensaje |-> "Horario creado exitosamente"]
    /\ \E h \in DOMAIN horario :
          /\ get_fecha_dia(horario[h]) = hoy
          /\ <<horario[h].empleado, hoy>> \in DOMAIN asistencia
          /\ asistencia[<<horario[h].empleado, hoy>>] = SinMarcas
    /\ \E k \in DOMAIN asistencia :
          /\ k[2] = hoy - 1
          /\ asistencia[k].hora_entrada # None
          /\ asistencia[k].hora_salida # None

\* C27: there is one record at most for an employee and a date, a record
\* with a clock-out has a clock-in, no record is removed and no clock time
\* once set is changed; a clock-in on a record that has one, and a clock-out
\* on a record without clock-in or with a clock-out, are refused and change
\* nothing.
C27_MarcasUnaSolaVez ==
    /\ [](\A k \in DOMAIN asistencia :
             /\ \A j \in DOMAIN asistencia : (j[1] = k[1] /\ j[2] = k[2]) => j = k
             /\ asistencia[k].hora_salida # None => asistencia[k].hora_entrada # None)
    /\ [][/\ \A k \in DOMAIN asistencia :
                /\ k \in DOMAIN asistencia'
                /\ asistencia[k].hora_entrada # None
                       => asistencia'[k].hora_entrada = asistencia[k].hora_entrada
                /\ asistencia[k].hora_salida # None
                       => asistencia'[k].hora_salida = asistencia[k].hora_salida
          /\ \A tipo \in TIPO :
                Registra(tipo)
                => LET k == <<Autenticado(llamada'.correo, llamada'.contrasena), hoy>>
                   IN  /\ (tipo = "entrada" /\ k \in DOMAIN asistencia
                             /\ asistencia[k].hora_entrada # None)
                          => /\ asistencia' = asistencia
                             /\ llamada'.mensaje = "Ya existe una entrada registrada para hoy."
                       /\ (tipo = "salida" /\ k \in DOMAIN asistencia
                             /\ asistencia[k].hora_entrada = None)
                          => /\ asistencia' = asistencia
                             /\ llamada'.mensaje =
                                    "No existe hora de entrada; no se puede registrar salida."
                       /\ (tipo = "salida" /\ k \in DOMAIN asistencia
                             /\ asistencia[k].hora_salida # None)
                          => /\ asistencia' = asistencia
                             /\ llamada'.mensaje = "La salida ya fue registrada para hoy."]_vars

\* a second clock-out was refused on a complete record, and a clock-out on
\* the empty record of a shift created over midnight is still to come
C27_Witness ==
    /\ llamada.op = "registrar_asistencia"
    /\ llamada.mensaje = "La salida ya fue registrada para hoy."
    /\ <<1, hoy>> \in DOMAIN asistencia
    /\ asistencia[<<1, hoy>>].hora_entrada # None
    /\ asistencia[<<1, hoy>>].hora_salida # None
    /\ asistencia[<<1, hoy>>].hora_salida # hora
    /\ \E k \in DOMAIN asistencia : asistencia[k] = SinMarcas


\* C28: no add, edit or delete changes or removes a shift whose date is today
\* or earlier, and a shift that an action created or changed has, after the
\* action, a date later than the day the action began; so no edit moves a
\* future shift onto today or the past.
C28_PasadoInmutable ==
    [][\A h \in HorarioIds :
          /\ (h \in DOMAIN horario /\ get_fecha_dia(horario[h]) <= hoy)
                => h \in DOMAIN horario' /\ horario'[h] = horario[h]
          /\ (h \in DOMAIN horario' /\ (h \notin DOMAIN horario \/ horario'[h] # horario[h]))
                => get_fecha_dia(horario'[h]) > hoy]_vars

\* the open records of employee e: a clock-in and no clock-out
Abiertas(e) ==
    {k \in DOMAIN asistencia :
        /\ k[1] = e
        /\ asistencia[k].hora_entrada # None
        /\ asistencia[k].hora_salida = None}

\* C30: a clock-out with the right credentials by an employee who has an
\* open record is accepted and sets the clock-out of the latest open record,
\* whatever the day and the time it is submitted at.
C30_SalidaSiempreAceptada ==
    [][Registra("salida")
          => LET e == Autenticado(llamada'.correo, llamada'.contrasena)
                 k == CHOOSE x \in Abiertas(e) : \A y \in Abiertas(e) : y[2] <= x[2]
             IN  (e # 0 /\ Abiertas(e) # {})
                 => /\ llamada'.mensaje = "Salida registrada."
                    /\ asistencia'[k].hora_salida = hora]_vars

====
